---- MODULE Spec2Model ----
(***************************************************************************)
(* Model of the two orchestrators of the repository:                       *)
(*   - AICompareService (src/services/AICompareService.ts): the fan-out of *)
(*     compareModels / getSingleGPTResponse over the Copilot and Gemini    *)
(*     backends, sharing the one `responses` field of the service object;  *)
(*   - compareRequestHandler (extension.ts, "modelbase" part): backend     *)
(*     resolution, the fan-out over the resolved model ids and the         *)
(*     module-level comparisonData / lastPrompt.                           *)
(* JavaScript runs one macrotask at a time: an action is one macrotask     *)
(* together with the microtasks (promise continuations) it triggers.       *)
(***************************************************************************)
EXTENDS Integers, Sequences, FiniteSets, TLC

\* ------------------------------------------------------------- bounds
\* number of calls made on the one AICompareService instance
MaxCalls == 2
\* number of chunks a language-model stream delivers at most
MaxChunks == 1
\* largest value Date.now() takes
MaxClock == 1
\* number of requests made to compareRequestHandler at a time
MaxInvocations == 2
\* number of models a catalog holds at most
MaxCatalog == 3
\* number of operations (compare requests, addModelEval) under way at a time
MaxOverlap == 2
\* number of fenced code regions a text is written from at most
MaxRegions == 3
\* number of responses handed to the formatter at most
MaxResponses == 4
\* number of tasks of the calls that overlap (in flight, or returned and
\* their array still in use) at most
MaxTasks == 3
\* number of resetToDefaults invocations under way at once at most
MaxResets == 1

Calls == 1..MaxCalls
\* the prompt of each call: overlapping calls carry different prompts
PromptNames == <<"p", "q", "r", "s">>
PromptOf(c) == PromptNames[c]

\* the tasks compareModels pushes, in the order it pushes them
TaskOrder == <<"GPT", "Claude", "Gemini">>
Backends == {"GPT", "Claude", "Gemini"}
CopilotBackends == {"GPT", "Claude"}

\* ------------------------------------------------------------- state
VARIABLES
    now,            \* Date.now()
    includeGemini,  \* configuration aicompare.includeGoogleGemini, by scope
    googleKey,      \* configuration aicompare.googleApiKey, by scope
    resets,         \* resetToDefaults invocations that have yet to unset googleApiKey
    folderOpen,     \* TRUE: the window has a workspace, whose settings can be written
    serial,         \* TRUE: the host issues a call only after the last one is done with
    heap,           \* the arrays `this.responses = []` allocated, by call
    thisResponses,  \* the array the field this.responses refers to
    call,           \* per call: position, kind, prompt, tasks, returned array
    task,           \* per call and backend: position, startTime, fullResponse
    cancelled       \* per call: token.isCancellationRequested

svars == <<now, includeGemini, googleKey, resets, folderOpen, serial, heap, thisResponses, call,
           task, cancelled>>

\* the state of the compareRequestHandler extension
VARIABLES
    catalog,        \* what vscode.lm.selectChatModels() returns, in order
    defaultModels,  \* configuration modelbase.defaultModels
    hserial,        \* TRUE: the host issues a request only after the last one ended
    lastPrompt,     \* module variable lastPrompt
    comparisonData, \* module variable comparisonData: model id -> response
    handler,        \* per request: position, prompt, modelIds, token
    htask,          \* per request and model id position: position, fullResponse
    resolved,       \* whether getFallbackModelIds was called, and what it returned last
    add             \* the jacob.addModelEval command: position, items, modelId, prompt

hvars == <<catalog, defaultModels, hserial, lastPrompt, comparisonData,
           handler, htask, resolved, add>>

\* the state of the formatter and the analysis: what they are given and return
VARIABLES
    given,          \* the responses handed to the ResponseFormatter
    report,         \* what the formatter did: the operation, what it passed on, the result
    regions,        \* the fenced code regions a text is written from
    markdown,       \* the text handed to extractCodeBlocksFromText
    blocks          \* whether it was called, and the blocks it returned

avars == <<given, report, regions, markdown, blocks>>

vars == <<svars, hvars, avars>>

\* ------------------------------------------------------------- AIResponse
NoKey == "<undefined>"

\* ------------------------------------------------------------- ConfigurationService
\* The settings live in two scopes, the user's (ConfigurationTarget.Global)
\* and the workspace's.  A scope holds <<value>> for a setting it defines and
\* <<>> for one it does not.
Scopes == {"Global", "Workspace"}
NotSet == <<>>

\* WorkspaceConfiguration.get(key, defaultValue): the workspace's value when
\* the workspace defines the setting, else the user's, else the default
Get(setting, defaultValue) ==
    IF setting["Workspace"] # NotSet THEN setting["Workspace"][1]
    ELSE IF setting["Global"] # NotSet THEN setting["Global"][1]
    ELSE defaultValue

\* get<boolean>('includeGoogleGemini', false)
shouldIncludeGemini == Get(includeGemini, FALSE)

\* get<string>('googleApiKey'): undefined when no scope defines it
getGoogleApiKey == Get(googleKey, NoKey)

\* A text is the sequence of its pieces.  The texts the analysis reads are
\* written token by token: a word (a maximal run of \w characters), a space,
\* a newline, a fence, or another character.  The words, and their length:
\* words of 80, 40 and 39 letters
Word80 == "aaaaaaaaaaaaaaaaaaaaaaaaaaaaaaaaaaaaaaaaaaaaaaaaaaaaaaaaaaaaaaaaaaaaaaaaaaaaaaaa"
Word40 == "bbbbbbbbbbbbbbbbbbbbbbbbbbbbbbbbbbbbbbbb"
Word39 == "ccccccccccccccccccccccccccccccccccccccc"

WordLength ==
    LET sized ==
          { <<{Word80}, 80>>,
            <<{Word40}, 40>>,
            <<{Word39}, 39>>,
            <<{"inheritance"}, 11>>,
            <<{"functional", "procedural"}, 10>>,
            <<{"algorithm", "recursion", "parameter", "recursive", "exception", "important", "essential"}, 9>>,
            <<{"function", "variable", "oriented", "callback"}, 8>>,
            <<{"foreach", "promise", "crucial"}, 7>>,
            <<{"method", "string", "return", "import", "switch", "object", "lambda", "filter", "reduce"}, 6>>,
            <<{"array", "class", "const", "async", "await", "while", "catch"}, 5>>,
            <<{"code", "loop", "Code", "does", "uses", "else", "step", "note"}, 4>>,
            <<{"the", "and", "for", "def", "try", "map", "key"}, 3>>,
            <<{"js", "py", "if", "by"}, 2>>,
            <<{"x", "y", "1", "2"}, 1>> }
    IN  [w \in UNION {p[1] : p \in sized} |-> (CHOOSE p \in sized : w \in p[1])[2]]

\* the run of three backquotes that opens and closes a code region
Fence == "[fence]"
Newline == "\n"
Space == " "

\* text.length: a streamed chunk is one character, the literal
\* 'No response generated' has 21
CharLen(chunk) ==
    IF chunk = "No response generated" THEN 21
    ELSE IF chunk \in DOMAIN WordLength THEN WordLength[chunk]
    ELSE IF chunk = Fence THEN 3
    ELSE IF chunk = "[CODE_BLOCK]" THEN 12
    ELSE 1

RECURSIVE TextLength(_)
TextLength(text) ==
    IF text = <<>> THEN 0 ELSE CharLen(Head(text)) + TextLength(Tail(text))

\* Math.ceil(text.length / 4)
estimateTokenCount(text) == (TextLength(text) + 3) \div 4

ProviderOf(b) == IF b = "Gemini" THEN "Google" ELSE "GitHub Copilot"

ModelName(b) ==
    CASE b = "GPT" -> "GPT-4o"
      [] b = "Claude" -> "Claude 3.5 Sonnet"
      [] b = "Gemini" -> "Gemini 1.5 Flash"

ErrorModelName(b) ==
    CASE b = "GPT" -> "GPT-4o (Error)"
      [] b = "Claude" -> "Claude 3.5 Sonnet (Error)"
      [] b = "Gemini" -> "Gemini 1.5 Flash (Error)"

\* the entry pushed at the end of the try block
SuccessEntry(b, text, startTime, endTime) ==
    [provider |-> ProviderOf(b), model |-> ModelName(b), response |-> text,
     timestamp |-> startTime, responseTime |-> endTime - startTime,
     tokenCount |-> estimateTokenCount(text)]

\* the entry pushed by the catch block
ErrorEntry(b, message, startTime, endTime) ==
    [provider |-> ProviderOf(b), model |-> ErrorModelName(b), response |-> <<>>,
     timestamp |-> startTime, responseTime |-> endTime - startTime,
     error |-> message]

HasError(e) == "error" \in DOMAIN e

\* ------------------------------------------------------------- errors
\* A message is the sequence of its pieces, so that a template literal is a
\* concatenation.  What a backend request can throw: [cls, msg, words], where
\* words are the keywords message.toLowerCase() includes.
Thrown ==
    { [cls |-> "LanguageModelError", msg |-> <<"Rate limit hit">>, words |-> {"rate limit"}],
      [cls |-> "NotAnError", msg |-> <<"rejected value">>, words |-> {}] }

\* what the runtime throws when it aborts a request on the token
CanceledError == [cls |-> "Error", msg |-> <<"Canceled">>, words |-> {}]

handleLanguageModelError(error) ==
    IF "access" \in error.words \/ "subscription" \in error.words
      THEN <<"No access to this model. Please check your GitHub Copilot subscription.">>
    ELSE IF "throttl" \in error.words \/ "rate limit" \in error.words
      THEN <<"Request throttled. Please wait a moment and try again.">>
    ELSE IF "block" \in error.words \/ "content policy" \in error.words
      THEN <<"Request blocked. The prompt may violate content policies.">>
    ELSE <<"Language model error: ">> \o error.msg

\* the catch block's errorMessage of the Copilot tasks
CopilotErrorMessage(error) ==
    IF error.cls = "LanguageModelError" THEN handleLanguageModelError(error)
    ELSE IF error.cls = "Error" THEN error.msg
    ELSE <<"Unknown error occurred">>

\* the catch block's errorMessage of the Gemini task
GeminiErrorMessage(error) ==
    IF error.cls \in {"Error", "LanguageModelError"} THEN error.msg
    ELSE <<"Unknown error occurred">>

ErrorMessage(b, error) ==
    IF b = "Gemini" THEN GeminiErrorMessage(error) ELSE CopilotErrorMessage(error)

\* throw new Error('... model not available ...') when models.length === 0
NotAvailable(kind, b) ==
    [cls |-> "Error", words |-> {},
     msg |-> IF kind = "single"
             THEN <<"Model not available. Please check your GitHub Copilot subscription.">>
             ELSE IF b = "GPT"
             THEN <<"GPT-4o model not available. Please check your GitHub Copilot subscription.">>
             ELSE <<"Claude 3.5 Sonnet model not available. Please check your GitHub Copilot subscription.">>]

\* throw new Error('Request cancelled')
RequestCancelled == [cls |-> "Error", msg |-> <<"Request cancelled">>, words |-> {}]

\* ------------------------------------------------------------- service
\* identities of the arrays the service allocates: one is referenced by the
\* field, and each call that returned holds one
ArrayIds == 0..MaxCalls

\* a call: gemini and key are the settings compareModels read (key is read
\* only when gemini is true), ret is the array it returned
IdleCall == [pc |-> "idle", kind |-> "compare", prompt |-> "p", tasks |-> {},
             gemini |-> FALSE, key |-> NoKey, ret |-> 0]
\* a task: its locals startTime, fullResponse and errorMessage (<<>>: the
\* catch block did not run), and the length push returned (pos)
IdleTask == [pc |-> "none", startTime |-> 0, full |-> <<>>, error |-> <<>>,
             pos |-> 0]

InFlight(c) == call[c].pc = "waiting"

\* an array no reference reaches is collected
Live(refs, h) == [a \in ArrayIds |-> IF a \in refs THEN h[a] ELSE <<>>]

\* Array.prototype.sort with (a, b) => a.timestamp - b.timestamp: stable
RECURSIVE InsertByTimestamp(_, _)
InsertByTimestamp(e, sorted) ==
    IF sorted = <<>> THEN <<e>>
    ELSE IF e.timestamp - Head(sorted).timestamp < 0 THEN <<e>> \o sorted
    ELSE <<Head(sorted)>> \o InsertByTimestamp(e, Tail(sorted))

RECURSIVE SortFrom(_, _)
SortFrom(rest, sorted) ==
    IF rest = <<>> THEN sorted
    ELSE SortFrom(Tail(rest), InsertByTimestamp(Head(rest), sorted))

\* a faulty variant: the sort is left out
NoSort(responses) == responses

SortByTimestamp(responses) == SortFrom(responses, <<>>)

\* the tasks a call starts: compareModels pushes GPT, Claude and, when
\* configured, Gemini; getSingleGPTResponse awaits the one GPT-4o task
GeminiEnabled == shouldIncludeGemini /\ getGoogleApiKey \notin {NoKey, ""}

TasksOf(kind) ==
    IF kind = "single" THEN {"GPT"}
    ELSE {"GPT", "Claude"} \cup (IF GeminiEnabled THEN {"Gemini"} ELSE {})

RECURSIVE SumTasks(_)
SumTasks(cs) ==
    IF cs = {} THEN 0
    ELSE LET c == CHOOSE x \in cs : TRUE
         IN  (IF call[c].pc \in {"waiting", "returned"}
              THEN Cardinality(call[c].tasks) ELSE 0)
             + SumTasks(cs \ {c})

TasksInFlight == SumTasks(Calls)

\* what follows `await Promise.allSettled(promises)` in compareModels, and the
\* `return this.responses` of getSingleGPTResponse, on the array the field
\* refers to at that time
AfterAwait(kind, responses) ==
    IF kind = "compare" THEN SortByTimestamp(responses) ELSE responses

\* a faulty variant: the entry is pushed by the try block and again by the catch block
PushTwice(h, entry) == [h EXCEPT ![thisResponses] = @ \o <<entry, entry>>]

\* this.responses.push(entry)
Push(h, entry) == [h EXCEPT ![thisResponses] = Append(@, entry)]

\* A task of call c pushes its entry and settles.  When it is the last task
\* of the call, the continuation of the call runs in the same macrotask.
Settle(c, b, entry) ==
    LET pushed == Push(heap, entry)
        task2 == [task EXCEPT ![c][b].pc = "done",
                              ![c][b].full = IF HasError(entry) THEN <<>> ELSE @,
                              ![c][b].error = IF HasError(entry) THEN entry.error ELSE <<>>,
                              ![c][b].pos = Len(pushed[thisResponses])]
        last == \A x \in call[c].tasks : task2[c][x].pc = "done"
    IN  /\ task' = task2
        /\ IF last
           THEN /\ heap' = [pushed EXCEPT
                              ![thisResponses] = AfterAwait(call[c].kind, @)]
                /\ call' = [call EXCEPT ![c].pc = "returned",
                                        ![c].ret = thisResponses]
           ELSE /\ heap' = pushed
                /\ UNCHANGED call

\* a faulty variant: the catch block records nothing
CatchDropsEntry(c, b, error) ==
    LET task2 == [task EXCEPT ![c][b].pc = "done",
                              ![c][b].full = <<>>,
                              ![c][b].error = ErrorMessage(b, error)]
        last == \A x \in call[c].tasks : task2[c][x].pc = "done"
    IN  /\ task' = task2
        /\ IF last
           THEN /\ heap' = [heap EXCEPT
                              ![thisResponses] = AfterAwait(call[c].kind, @)]
                /\ call' = [call EXCEPT ![c].pc = "returned",
                                        ![c].ret = thisResponses]
           ELSE UNCHANGED <<heap, call>>

\* the catch block of a task
Catch(c, b, error) ==
    Settle(c, b, ErrorEntry(b, ErrorMessage(b, error), task[c][b].startTime, now))

\* the end of the try block of a task
Succeed(c, b, text) ==
    Settle(c, b, SuccessEntry(b, text, task[c][b].startTime, now))

\* a setting with the user's and the workspace's value
Scoped(global, workspace) == [scope \in Scopes |-> IF scope = "Global" THEN global ELSE workspace]

\* the settings the calls are checked under: nothing set; Gemini included by
\* the user, without and with a key; and the workspace switching off what the
\* user switched on
Configurations ==
    { [include |-> Scoped(NotSet, NotSet), key |-> Scoped(NotSet, NotSet), folder |-> FALSE],
      [include |-> Scoped(<<TRUE>>, NotSet), key |-> Scoped(NotSet, NotSet), folder |-> FALSE],
      [include |-> Scoped(<<TRUE>>, NotSet), key |-> Scoped(<<"AIza-key">>, NotSet), folder |-> FALSE],
      [include |-> Scoped(<<TRUE>>, <<FALSE>>), key |-> Scoped(<<"AIza-key">>, NotSet), folder |-> TRUE] }

InitService ==
    /\ now = 0
    /\ \E cfg \in Configurations :
          includeGemini = cfg.include /\ googleKey = cfg.key /\ folderOpen = cfg.folder
    /\ resets = 0
    /\ heap = [a \in ArrayIds |-> <<>>]
    /\ thisResponses = 0
    /\ call = [c \in Calls |-> IdleCall]
    /\ task = [c \in Calls |-> [b \in Backends |-> IdleTask]]
    /\ cancelled = [c \in Calls |-> FALSE]

\* compareModels / getSingleGPTResponse up to their await: the field gets a
\* fresh array and every task runs up to its first await, reading Date.now()
StartCall(c, kind) ==
    /\ call[c].pc = "idle"
    /\ \A d \in Calls : d < c => call[d].pc # "idle"
    /\ serial => \A d \in Calls : call[d].pc = "idle"
    /\ TasksInFlight + Cardinality(TasksOf(kind)) <= MaxTasks
    /\ \E a \in ArrayIds, t1, t2, t3 \in 0..MaxClock :
        /\ a # thisResponses
        /\ \A d \in Calls : call[d].pc = "returned" => call[d].ret # a
        /\ \A a2 \in ArrayIds :
              (a2 # thisResponses
                 /\ \A d \in Calls : call[d].pc = "returned" => call[d].ret # a2)
              => a <= a2
        /\ t1 = now
        /\ t2 \in {t1, t1 + 1}
        /\ t3 \in {t2, t2 + 1}
        /\ now' = IF "Gemini" \in TasksOf(kind) THEN t3
                  ELSE IF "Claude" \in TasksOf(kind) THEN t2 ELSE t1
        /\ thisResponses' = a
        /\ heap' = Live({a} \cup {call[d].ret : d \in {x \in Calls : call[x].pc = "returned"}},
                        [heap EXCEPT ![a] = <<>>])
        /\ call' = [call EXCEPT ![c] = [pc |-> "waiting", kind |-> kind,
                                        prompt |-> PromptOf(c),
                                        tasks |-> TasksOf(kind),
                                        gemini |-> kind = "compare" /\ shouldIncludeGemini,
                                        key |-> IF kind = "compare" /\ shouldIncludeGemini
                                                THEN getGoogleApiKey ELSE NoKey,
                                        ret |-> 0]]
        /\ task' = [task EXCEPT ![c] = [b \in Backends |->
              IF b \notin TasksOf(kind) THEN IdleTask
              ELSE [pc |-> IF b = "Gemini" THEN "http" ELSE "select",
                    startTime |-> CASE b = "GPT" -> t1 [] b = "Claude" -> t2
                                    [] b = "Gemini" -> t3,
                    full |-> <<>>, error |-> <<>>, pos |-> 0]]]
    /\ cancelled' = [cancelled EXCEPT ![c] = FALSE]
    /\ UNCHANGED <<avars, hvars, includeGemini, googleKey, resets, folderOpen, serial>>

\* Date.now() advances while a call is in flight
Tick ==
    /\ now < MaxClock
    /\ \E c \in Calls : InFlight(c)
    /\ now' = now + 1
    /\ UNCHANGED <<avars, hvars, includeGemini, googleKey, resets, folderOpen, serial, heap, thisResponses, call,
                   task, cancelled>>

\* selectChatModels resolves with no model: models.length === 0
SelectNone(c, b) ==
    /\ task[c][b].pc = "select"
    /\ Catch(c, b, NotAvailable(call[c].kind, b))
    /\ UNCHANGED <<avars, hvars, now, includeGemini, googleKey, resets, folderOpen, serial, thisResponses, cancelled>>

\* selectChatModels resolves with a model: the request is sent
SelectFound(c, b) ==
    /\ task[c][b].pc = "select"
    /\ task' = [task EXCEPT ![c][b].pc = "stream"]
    /\ UNCHANGED <<avars, hvars, now, includeGemini, googleKey, resets, folderOpen, serial, heap, thisResponses,
                   call, cancelled>>

\* the stream yields a chunk: the loop body
Chunk(c, b) ==
    /\ task[c][b].pc = "stream"
    /\ Len(task[c][b].full) < MaxChunks
    /\ IF cancelled[c]
       THEN Catch(c, b, RequestCancelled)
       ELSE /\ task' = [task EXCEPT ![c][b].full = Append(@, call[c].prompt)]
            /\ UNCHANGED <<heap, call>>
    /\ UNCHANGED <<avars, hvars, now, includeGemini, googleKey, resets, folderOpen, serial, thisResponses, cancelled>>

\* the stream ends: the loop exits and the success entry is pushed
StreamEnd(c, b) ==
    /\ task[c][b].pc = "stream"
    /\ Succeed(c, b, task[c][b].full)
    /\ UNCHANGED <<avars, hvars, now, includeGemini, googleKey, resets, folderOpen, serial, thisResponses, cancelled>>

\* selectChatModels, sendRequest or the stream throws
Throw(c, b, error) ==
    /\ task[c][b].pc \in {"select", "stream"}
    /\ Catch(c, b, error)
    /\ UNCHANGED <<avars, hvars, now, includeGemini, googleKey, resets, folderOpen, serial, thisResponses, cancelled>>

\* the runtime aborts the request of a cancelled token
ApiAbort(c, b) ==
    /\ task[c][b].pc = "stream"
    /\ cancelled[c]
    /\ Catch(c, b, CanceledError)
    /\ UNCHANGED <<avars, hvars, now, includeGemini, googleKey, resets, folderOpen, serial, thisResponses, cancelled>>

\* makeHttpsRequest settles and the Gemini task goes on to its end
GeminiOutcomes == {"text", "no candidates", "api error", "http status"}

GeminiSettle(c, outcome) ==
    /\ task[c]["Gemini"].pc = "http"
    /\ CASE outcome = "text" -> Succeed(c, "Gemini", <<call[c].prompt>>)
         [] outcome = "no candidates" ->
              Succeed(c, "Gemini", <<"No response generated">>)
         [] outcome = "api error" ->
              Catch(c, "Gemini", [cls |-> "Error", words |-> {},
                                  msg |-> <<"Google API error: ", "quota">>])
         [] outcome = "http status" ->
              Catch(c, "Gemini", [cls |-> "Error", words |-> {},
                                  msg |-> <<"HTTP ", "500", ": ", "body">>])
    /\ UNCHANGED <<avars, hvars, now, includeGemini, googleKey, resets, folderOpen, serial, thisResponses, cancelled>>

\* the user stops the request: the token fires its listeners, so a pending
\* makeHttpsRequest rejects at once
Cancel(c) ==
    /\ InFlight(c)
    /\ ~cancelled[c]
    /\ cancelled' = [cancelled EXCEPT ![c] = TRUE]
    /\ IF task[c]["Gemini"].pc = "http"
       THEN Catch(c, "Gemini", RequestCancelled)
       ELSE UNCHANGED <<heap, call, task>>
    /\ UNCHANGED <<avars, hvars, now, includeGemini, googleKey, resets, folderOpen, serial, thisResponses>>

\* the caller is done with the array it was returned; a call that overlapped
\* another one is not made again
Release(c) ==
    /\ call[c].pc = "returned"
    /\ call' = [call EXCEPT ![c] =
                  IF \A d \in Calls \ {c} : call[d].pc = "idle"
                  THEN IdleCall ELSE [IdleCall EXCEPT !.pc = "released"]]
    /\ task' = [task EXCEPT ![c] = [b \in Backends |-> IdleTask]]
    /\ cancelled' = [cancelled EXCEPT ![c] = FALSE]
    /\ heap' = Live({thisResponses} \cup
                    {call[d].ret : d \in {x \in Calls \ {c} : call[x].pc = "returned"}},
                    heap)
    /\ UNCHANGED <<avars, hvars, now, includeGemini, googleKey, resets, folderOpen, serial, thisResponses>>

\* the keys the input box and a caller hand over (NoKey: undefined)
ApiKeys == {NoKey, "AIza-key"}

\* the third argument of config.update: a ConfigurationTarget, or none
NoTarget == "<undefined>"
Targets == {"Global", "Workspace", NoTarget}

\* the scope config.update(key, value, target) writes: the user's for
\* ConfigurationTarget.Global, the workspace's otherwise and without a target
ScopeOf(target) == IF target = "Global" THEN "Global" ELSE "Workspace"

\* config.update rejects a write to the workspace's settings when the window
\* has no workspace
Rejects(target) == ScopeOf(target) = "Workspace" /\ ~folderOpen

\* the setting after config.update(key, value, target); the value undefined
\* removes the setting from the scope
Update(setting, held, target) == [setting EXCEPT ![ScopeOf(target)] = held]

\* ConfigurationService.updateConfiguration(key, value, target):
\* config.update(key, value, target); a rejected update leaves the settings
UpdateConfiguration(key, value, target) ==
    /\ target \in Targets
    /\ \/ /\ key = "includeGoogleGemini" /\ value \in BOOLEAN
          /\ includeGemini' = IF Rejects(target) THEN includeGemini
                              ELSE Update(includeGemini, <<value>>, target)
          /\ UNCHANGED googleKey
       \/ /\ key = "googleApiKey" /\ value \in ApiKeys
          /\ googleKey' = IF Rejects(target) THEN googleKey
                          ELSE Update(googleKey, IF value = NoKey THEN NotSet ELSE <<value>>,
                                      target)
          /\ UNCHANGED includeGemini
    /\ UNCHANGED <<avars, hvars, now, resets, folderOpen, serial, heap, thisResponses, call,
                   task, cancelled>>

\* ConfigurationService.promptForGoogleApiKey: the input box accepts only a
\* key that starts with AIza, or is dismissed (NoKey) and nothing is updated;
\* a key is written to the user's settings (ConfigurationTarget.Global)
PromptForGoogleApiKey(apiKey) ==
    /\ apiKey \in ApiKeys
    /\ googleKey' = IF apiKey # NoKey THEN Update(googleKey, <<apiKey>>, "Global")
                    ELSE googleKey
    /\ UNCHANGED <<avars, hvars, now, includeGemini, resets, folderOpen, serial, heap,
                   thisResponses, call, task, cancelled>>

\* ConfigurationService.resetToDefaults up to its second await: the first
\* update, without a target, removes includeGoogleGemini from the workspace's
\* settings, and the second is still to be written; in a window without a
\* workspace the first update rejects and resetToDefaults ends there
ResetToDefaults ==
    /\ resets < MaxResets
    /\ IF Rejects(NoTarget)
       THEN UNCHANGED <<includeGemini, resets>>
       ELSE /\ includeGemini' = Update(includeGemini, NotSet, NoTarget)
            /\ resets' = resets + 1
    /\ UNCHANGED <<avars, hvars, now, googleKey, folderOpen, serial, heap, thisResponses,
                   call, task, cancelled>>

\* resetToDefaults goes on: the second update removes googleApiKey from the
\* workspace's settings; the three updates after it write settings the
\* service does not read
ResetGoogleApiKey ==
    /\ resets > 0
    /\ googleKey' = Update(googleKey, NotSet, NoTarget)
    /\ resets' = resets - 1
    /\ UNCHANGED <<avars, hvars, now, includeGemini, folderOpen, serial, heap, thisResponses,
                   call, task, cancelled>>

NextCalls ==
    \/ \E c \in Calls, kind \in {"compare", "single"} : StartCall(c, kind)
    \/ Tick
    \/ \E c \in Calls, b \in CopilotBackends : SelectNone(c, b)
    \/ \E c \in Calls, b \in CopilotBackends : SelectFound(c, b)
    \/ \E c \in Calls, b \in CopilotBackends : Chunk(c, b)
    \/ \E c \in Calls, b \in CopilotBackends : StreamEnd(c, b)
    \/ \E c \in Calls, b \in CopilotBackends, error \in Thrown : Throw(c, b, error)
    \/ \E c \in Calls, b \in CopilotBackends : ApiAbort(c, b)
    \/ \E c \in Calls, outcome \in GeminiOutcomes : GeminiSettle(c, outcome)
    \/ \E c \in Calls : Cancel(c)
    \/ \E c \in Calls : Release(c)

\* the settings change
NextConfiguration ==
    \/ \E target \in Targets : UpdateConfiguration("includeGoogleGemini", TRUE, target)
    \/ \E target \in Targets : UpdateConfiguration("includeGoogleGemini", FALSE, target)
    \/ \E value \in ApiKeys, target \in Targets :
          UpdateConfiguration("googleApiKey", value, target)
    \/ \E apiKey \in ApiKeys : PromptForGoogleApiKey(apiKey)
    \/ ResetToDefaults
    \/ ResetGoogleApiKey

\* the settings change, and calls start under them
NextSettings ==
    \/ NextConfiguration
    \/ \E c \in Calls, kind \in {"compare", "single"} : StartCall(c, kind)

\* ------------------------------------------------------------- compareRequestHandler
\* A string is the sequence of its pieces, so that String.includes is a
\* search for a piece.  The models a catalog can hold: id and family.
ModelMini     == [id |-> <<"gpt-4o", "-mini">>, family |-> <<"gpt-4o", "-mini">>]
ModelO3Mini   == [id |-> <<"o3", "-mini", "-2025">>, family |-> <<"o3", "-mini">>]
ModelGpt4     == [id |-> <<"gpt-4.0">>, family |-> <<"gpt-4.0">>]
ModelGpt4Mini == [id |-> <<"gpt-4.0", "-mini">>, family |-> <<"gpt-4.0", "-mini">>]
ModelClaude   == [id |-> <<"claude">>, family |-> <<"claude">>]

Models == {ModelMini, ModelO3Mini, ModelGpt4, ModelGpt4Mini, ModelClaude}

\* family.includes(piece)
Includes(family, piece) == \E i \in 1..Len(family) : family[i] = piece

\* Array.prototype.filter
RECURSIVE Filter(_, _)
Filter(seq, kept) ==
    IF seq = <<>> THEN <<>>
    ELSE (IF Head(seq) \in kept THEN <<Head(seq)>> ELSE <<>>) \o Filter(Tail(seq), kept)

IsMini(model) == Includes(model.family, "-mini")
IsGpt4(model) == Includes(model.family, "gpt-4.0")
IsOther(model) == ~Includes(model.family, "-mini") /\ ~Includes(model.family, "gpt-4.0")

\* [...miniModels, ...gpt4Models, ...otherModels]
prioritizedModels(availableModels) ==
    Filter(availableModels, {m \in Models : IsMini(m)})
      \o Filter(availableModels, {m \in Models : IsGpt4(m)})
      \o Filter(availableModels, {m \in Models : IsOther(m)})

\* slice(0, 2)
FirstTwo(seq) == SubSeq(seq, 1, IF Len(seq) < 2 THEN Len(seq) ELSE 2)

\* map(model => model.id)
Ids(seq) == [i \in 1..Len(seq) |-> seq[i].id]

\* a faulty variant: the flagship tier ahead of the -mini tier
FlagshipFirst(availableModels) ==
    Ids(FirstTwo(Filter(availableModels, {m \in Models : IsGpt4(m)})
                   \o Filter(availableModels, {m \in Models : IsMini(m)})
                   \o Filter(availableModels, {m \in Models : IsOther(m)})))

getFallbackModelIds(availableModels) ==
    IF Len(availableModels) = 0 THEN <<>>
    ELSE Ids(FirstTwo(prioritizedModels(availableModels)))

\* selectChatModels({ family: modelId }): the models of that family
SelectByFamily(availableModels, modelId) ==
    Filter(availableModels, {m \in Models : m.family = modelId})

\* defaultModels.length >= 2
UseDefaults(defaults) == Len(defaults) >= 2

\* a faulty variant: one model is enough
NoModel(modelIds) == Len(modelIds) < 1

\* modelIds.length < 2
NotEnoughModels(modelIds) == Len(modelIds) < 2

Invocations == 1..MaxInvocations
HPrompts == {"p", "q"}

IdleInvocation == [pc |-> "idle", prompt |-> "", modelIds |-> <<>>, cancelled |-> FALSE]
IdleHTask == [pc |-> "none", full |-> <<>>]
IdleAdd == [pc |-> "idle", items |-> <<>>, modelId |-> <<>>, prompt |-> "",
            full |-> <<>>]

\* the operations that have started and are not over
UnderWay ==
    Cardinality({v \in Invocations : handler[v].pc # "idle"})
      + (IF add.pc = "idle" THEN 0 ELSE 1)

\* the positions of modelIds a request can have a task for
Slots == 1..2

HandlerAtRest ==
    /\ lastPrompt = ""
    /\ comparisonData = <<>>
    /\ handler = [v \in Invocations |-> IdleInvocation]
    /\ htask = [v \in Invocations |-> [i \in Slots |-> IdleHTask]]
    /\ resolved = [called |-> FALSE, ids |-> <<>>]
    /\ add = IdleAdd

\* what a formatter call did: the responses it passed to analyzeResponses and
\* the AnalysisResult it got (result: <<>> or one result), the responses whose
\* text it passed to extractExplanationSections, and the responses it passed
\* to compareExplanationQuality
NoReport == [op |-> "none", insufficient |-> FALSE, analysed |-> <<>>,
             result |-> <<>>, sections |-> <<>>, compared |-> <<>>]

AnalysisAtRest ==
    /\ given = <<>>
    /\ report = NoReport
    /\ regions = <<>>
    /\ markdown = <<>>
    /\ blocks = [called |-> FALSE, list |-> <<>>]

ServiceAtRest ==
    /\ now = 0
    /\ includeGemini = Scoped(NotSet, NotSet)
    /\ googleKey = Scoped(NotSet, NotSet)
    /\ resets = 0
    /\ folderOpen = FALSE
    /\ serial = TRUE
    /\ heap = [a \in ArrayIds |-> <<>>]
    /\ thisResponses = 0
    /\ call = [c \in Calls |-> IdleCall]
    /\ task = [c \in Calls |-> [b \in Backends |-> IdleTask]]
    /\ cancelled = [c \in Calls |-> FALSE]

\* the catalogs and settings the handler is run on
HandlerCatalogs ==
    { <<>>, <<ModelMini>>, <<ModelMini, ModelClaude>>, <<ModelO3Mini, ModelClaude>>,
      <<ModelClaude, ModelGpt4, ModelMini>>, <<ModelGpt4Mini, ModelClaude>> }
HandlerDefaults ==
    { <<>>, <<ModelClaude.id>>, <<ModelMini.id, ModelClaude.id>>,
      <<ModelClaude.id, ModelClaude.id>> }

InitHandler ==
    /\ catalog \in HandlerCatalogs
    /\ defaultModels \in HandlerDefaults
    /\ hserial = TRUE
    /\ HandlerAtRest /\ AnalysisAtRest
    /\ ServiceAtRest

\* the sequences of at most MaxCatalog different models
RECURSIVE CatalogsOfLength(_)
CatalogsOfLength(n) ==
    IF n = 0 THEN {<<>>}
    ELSE {Append(cat, m) : cat \in CatalogsOfLength(n - 1), m \in Models}

NoRepeat(cat) == \A i \in 1..Len(cat), j \in 1..Len(cat) : i # j => cat[i] # cat[j]

AllCatalogs ==
    {cat \in UNION {CatalogsOfLength(n) : n \in 0..MaxCatalog} : NoRepeat(cat)}

\* for (const key in comparisonData) delete comparisonData[key]
Cleared == <<>>

\* a faulty variant: the assignment replaces the whole object
StoreAlone(data, modelId, fullResponse) == [k \in {modelId} |-> fullResponse]

\* comparisonData[modelId] = fullResponse
Store(data, modelId, fullResponse) ==
    [k \in DOMAIN data \cup {modelId} |->
        IF k = modelId THEN fullResponse ELSE data[k]]

\* the loop over modelIds: each executor runs up to its first await
StartTasks(v, modelIds, tokenCancelled) ==
    [i \in Slots |->
        IF i > Len(modelIds) THEN IdleHTask
        ELSE [pc |-> IF tokenCancelled THEN "done" ELSE "select", full |-> <<>>]]

\* the handler from the fallback/default decision on: the refusal, or the
\* clearing of comparisonData and the start of the tasks
FanOut(v, prompt, modelIds) ==
    IF NotEnoughModels(modelIds)
    THEN /\ handler' = [handler EXCEPT ![v] = [pc |-> "refused", prompt |-> prompt,
                                   modelIds |-> modelIds,
                                   cancelled |-> handler[v].cancelled]]
         /\ UNCHANGED <<comparisonData, htask>>
    ELSE /\ comparisonData' = Cleared
         /\ htask' = [htask EXCEPT ![v] = StartTasks(v, modelIds, handler[v].cancelled)]
         /\ handler' = [handler EXCEPT ![v] = [pc |-> IF handler[v].cancelled THEN "done" ELSE "running",
                                   prompt |-> prompt, modelIds |-> modelIds,
                                   cancelled |-> handler[v].cancelled]]

\* compareRequestHandler up to its first await
Handle(v, prompt) ==
    /\ handler[v].pc = "idle"
    /\ \A w \in Invocations : w < v => handler[w].pc # "idle"
    /\ hserial => (add.pc = "idle" /\ \A w \in Invocations : handler[w].pc = "idle")
    /\ UnderWay < MaxOverlap
    /\ lastPrompt' = prompt
    /\ IF UseDefaults(defaultModels)
       THEN FanOut(v, prompt, defaultModels)
       ELSE /\ handler' = [handler EXCEPT ![v] = [pc |-> "resolving", prompt |-> prompt,
                                      modelIds |-> <<>>, cancelled |-> FALSE]]
            /\ UNCHANGED <<comparisonData, htask>>
    /\ UNCHANGED <<avars, svars, add, catalog, defaultModels, hserial, resolved>>

\* getFallbackModelIds resolves and the handler goes on
Resolved(v) ==
    /\ handler[v].pc = "resolving"
    /\ resolved' = [called |-> TRUE, ids |-> getFallbackModelIds(catalog)]
    /\ FanOut(v, handler[v].prompt, getFallbackModelIds(catalog))
    /\ UNCHANGED <<avars, svars, add, catalog, defaultModels, hserial, lastPrompt>>

\* a task resolves its promise; with the last one Promise.all resolves and
\* the handler ends
HSettle(v, i, data) ==
    LET htask2 == [htask EXCEPT ![v][i].pc = "done"]
        last == \A j \in 1..Len(handler[v].modelIds) : htask2[v][j].pc = "done"
    IN  /\ htask' = htask2
        /\ comparisonData' = data
        /\ handler' = IF last THEN [handler EXCEPT ![v].pc = "done"] ELSE handler

\* selectChatModels({ family: modelId }) resolves
HSelect(v, i) ==
    /\ handler[v].pc = "running"
    /\ htask[v][i].pc = "select"
    /\ IF SelectByFamily(catalog, handler[v].modelIds[i]) = <<>>
       THEN HSettle(v, i, comparisonData)
       ELSE /\ htask' = [htask EXCEPT ![v][i].pc = "stream"]
            /\ UNCHANGED <<comparisonData, handler>>
    /\ UNCHANGED <<avars, svars, add, catalog, defaultModels, hserial, lastPrompt, resolved>>

\* the stream yields a fragment
HChunk(v, i) ==
    /\ htask[v][i].pc = "stream"
    /\ Len(htask[v][i].full) < MaxChunks
    /\ htask' = [htask EXCEPT ![v][i].full = Append(@, handler[v].prompt)]
    /\ UNCHANGED <<avars, svars, add, catalog, defaultModels, hserial, lastPrompt,
                   comparisonData, handler, resolved>>

\* the stream ends: the response is stored
HStreamEnd(v, i) ==
    /\ htask[v][i].pc = "stream"
    /\ HSettle(v, i, Store(comparisonData, handler[v].modelIds[i], htask[v][i].full))
    /\ UNCHANGED <<avars, svars, add, catalog, defaultModels, hserial, lastPrompt, resolved>>

\* selectChatModels, sendRequest or the stream throws: the catch block
HThrow(v, i) ==
    /\ htask[v][i].pc \in {"select", "stream"}
    /\ HSettle(v, i, comparisonData)
    /\ UNCHANGED <<avars, svars, add, catalog, defaultModels, hserial, lastPrompt, resolved>>

\* the user stops the request
HCancel(v) ==
    /\ handler[v].pc \in {"resolving", "running"}
    /\ ~handler[v].cancelled
    /\ handler' = [handler EXCEPT ![v].cancelled = TRUE]
    /\ UNCHANGED <<avars, svars, add, catalog, defaultModels, hserial, lastPrompt,
                   comparisonData, htask, resolved>>

\* the request is over
HRelease(v) ==
    /\ handler[v].pc \in {"done", "refused"}
    /\ handler' = [handler EXCEPT ![v] = IdleInvocation]
    /\ htask' = [htask EXCEPT ![v] = [i \in Slots |-> IdleHTask]]
    /\ UNCHANGED <<avars, svars, add, catalog, defaultModels, hserial, lastPrompt,
                   comparisonData, resolved>>

NextHandler ==
    \/ \E v \in Invocations, prompt \in HPrompts : Handle(v, prompt)
    \/ \E v \in Invocations : Resolved(v)
    \/ \E v \in Invocations, i \in Slots : HSelect(v, i)
    \/ \E v \in Invocations, i \in Slots : HChunk(v, i)
    \/ \E v \in Invocations, i \in Slots : HStreamEnd(v, i)
    \/ \E v \in Invocations, i \in Slots : HThrow(v, i)
    \/ \E v \in Invocations : HCancel(v)
    \/ \E v \in Invocations : HRelease(v)

\* ------------------------------------------------------------- addModelEval
\* Object.keys(comparisonData)
Keys(data) == DOMAIN data

\* availableModels.filter(model => !currentModelIds.includes(model.id)), as
\* the labels of the quick pick
modelsToAdd(availableModels, data) ==
    Ids(Filter(availableModels, {m \in Models : m.id \notin Keys(data)}))

\* a faulty variant: the command never refuses
NeverRefused(prompt) == FALSE

\* !lastPrompt
NoPrompt(prompt) == prompt = ""

\* the command up to its first await: the refusal, or the catalog is asked for
AddStart ==
    /\ add.pc = "idle"
    /\ hserial => \A v \in Invocations : handler[v].pc = "idle"
    /\ UnderWay < MaxOverlap
    /\ add' = [IdleAdd EXCEPT !.pc = IF NoPrompt(lastPrompt) THEN "refused" ELSE "discover"]
    /\ UNCHANGED <<avars, svars, catalog, defaultModels, hserial, lastPrompt,
                   comparisonData, handler, htask, resolved>>

\* selectChatModels() resolves: nothing to add, or the quick pick is shown
AddDiscovered ==
    /\ add.pc = "discover"
    /\ add' = IF modelsToAdd(catalog, comparisonData) = <<>>
              THEN [add EXCEPT !.pc = "nothing"]
              ELSE [add EXCEPT !.pc = "pick",
                               !.items = modelsToAdd(catalog, comparisonData)]
    /\ UNCHANGED <<avars, svars, catalog, defaultModels, hserial, lastPrompt,
                   comparisonData, handler, htask, resolved>>

\* the user picks an item: queryModelAndRefreshWebview(label, context,
\* lastPrompt) runs up to its first await
AddPick(k) ==
    /\ add.pc = "pick"
    /\ k \in 1..Len(add.items)
    /\ add' = [add EXCEPT !.pc = "select", !.modelId = add.items[k],
                          !.prompt = lastPrompt]
    /\ UNCHANGED <<avars, svars, catalog, defaultModels, hserial, lastPrompt,
                   comparisonData, handler, htask, resolved>>

\* the user dismisses the quick pick
AddDismiss ==
    /\ add.pc = "pick"
    /\ add' = [add EXCEPT !.pc = "dismissed"]
    /\ UNCHANGED <<avars, svars, catalog, defaultModels, hserial, lastPrompt,
                   comparisonData, handler, htask, resolved>>

\* selectChatModels({ family: modelId }) resolves
AddSelect ==
    /\ add.pc = "select"
    /\ add' = [add EXCEPT !.pc = IF SelectByFamily(catalog, add.modelId) = <<>>
                                 THEN "failed" ELSE "stream"]
    /\ UNCHANGED <<avars, svars, catalog, defaultModels, hserial, lastPrompt,
                   comparisonData, handler, htask, resolved>>

\* the stream yields a fragment
AddChunk ==
    /\ add.pc = "stream"
    /\ Len(add.full) < MaxChunks
    /\ add' = [add EXCEPT !.full = Append(@, add.prompt)]
    /\ UNCHANGED <<avars, svars, catalog, defaultModels, hserial, lastPrompt,
                   comparisonData, handler, htask, resolved>>

\* the stream ends: comparisonData[modelId] = fullResponse
AddStreamEnd ==
    /\ add.pc = "stream"
    /\ comparisonData' = Store(comparisonData, add.modelId, add.full)
    /\ add' = [add EXCEPT !.pc = "added"]
    /\ UNCHANGED <<avars, svars, catalog, defaultModels, hserial, lastPrompt,
                   handler, htask, resolved>>

\* selectChatModels, sendRequest or the stream throws: the catch block
AddThrow ==
    /\ add.pc \in {"select", "stream"}
    /\ add' = [add EXCEPT !.pc = "failed", !.full = <<>>]
    /\ UNCHANGED <<avars, svars, catalog, defaultModels, hserial, lastPrompt,
                   comparisonData, handler, htask, resolved>>

\* the command is over
AddRelease ==
    /\ add.pc \in {"refused", "nothing", "dismissed", "added", "failed"}
    /\ add' = IdleAdd
    /\ UNCHANGED <<avars, svars, catalog, defaultModels, hserial, lastPrompt,
                   comparisonData, handler, htask, resolved>>

NextAdd ==
    \/ AddStart
    \/ AddDiscovered
    \/ \E k \in 1..MaxCatalog : AddPick(k)
    \/ AddDismiss
    \/ AddSelect
    \/ AddChunk
    \/ AddStreamEnd
    \/ AddThrow
    \/ AddRelease

\* compare requests and the addModelEval command
NextSession == NextHandler \/ NextAdd

\* getFallbackModelIds applied to a catalog
Resolve ==
    /\ ~resolved.called
    /\ resolved' = [called |-> TRUE, ids |-> getFallbackModelIds(catalog)]
    /\ UNCHANGED <<avars, svars, add, catalog, defaultModels, hserial, lastPrompt,
                   comparisonData, handler, htask>>

\* ------------------------------------------------------------- specifications
\* the service as activate() constructs it, the other extension at rest
InitSerial ==
    /\ InitService /\ serial = TRUE
    /\ catalog = <<>> /\ defaultModels = <<>> /\ hserial = TRUE /\ HandlerAtRest /\ AnalysisAtRest

\* every value of the two settings in the two scopes; a window without a
\* workspace has no workspace settings
InitSettings ==
    /\ includeGemini \in [Scopes -> {NotSet, <<TRUE>>, <<FALSE>>}]
    /\ googleKey \in [Scopes -> {NotSet, <<"AIza-key">>}]
    /\ folderOpen \in BOOLEAN
    /\ ~folderOpen => includeGemini["Workspace"] = NotSet /\ googleKey["Workspace"] = NotSet
    /\ now = 0
    /\ resets = 0
    /\ serial = TRUE
    /\ heap = [a \in ArrayIds |-> <<>>]
    /\ thisResponses = 0
    /\ call = [c \in Calls |-> IdleCall]
    /\ task = [c \in Calls |-> [b \in Backends |-> IdleTask]]
    /\ cancelled = [c \in Calls |-> FALSE]
    /\ catalog = <<>> /\ defaultModels = <<>> /\ hserial = TRUE /\ HandlerAtRest /\ AnalysisAtRest

InitConcurrent ==
    /\ InitService /\ serial = FALSE
    /\ catalog = <<>> /\ defaultModels = <<>> /\ hserial = TRUE /\ HandlerAtRest /\ AnalysisAtRest

\* every catalog of at most MaxCatalog models
InitResolve ==
    /\ catalog \in AllCatalogs /\ defaultModels = <<>> /\ hserial = TRUE
    /\ HandlerAtRest /\ AnalysisAtRest /\ ServiceAtRest

\* compare requests and the command, one operation at a time
InitSession ==
    /\ catalog \in HandlerCatalogs
    /\ defaultModels \in HandlerDefaults
    /\ hserial = TRUE
    /\ HandlerAtRest /\ AnalysisAtRest
    /\ ServiceAtRest

\* compare requests and the command, overlapping
InitOverlap ==
    /\ catalog = <<ModelClaude, ModelGpt4, ModelMini>>
    /\ defaultModels \in {<<>>, <<ModelMini.id, ModelClaude.id>>}
    /\ hserial = FALSE
    /\ HandlerAtRest /\ AnalysisAtRest
    /\ ServiceAtRest

SpecSession == InitSession /\ [][NextSession]_vars

SpecOverlap == InitOverlap /\ [][NextSession]_vars

\* calls on the service one at a time, the settings staying as they are
SpecSerial == InitSerial /\ [][NextCalls]_vars

\* the settings changing, from every setting of the two scopes, and calls
\* starting under them
SpecSettings == InitSettings /\ [][NextSettings]_vars

\* calls on the service overlapping, the settings staying as they are
SpecConcurrent == InitConcurrent /\ [][NextCalls]_vars

\* requests to compareRequestHandler one at a time
SpecHandler == InitHandler /\ [][NextHandler]_vars

\* getFallbackModelIds on every catalog
SpecResolve == InitResolve /\ [][Resolve]_vars

\* calls on the service one at a time, with the scheduling the runtime
\* guarantees: the local model lookup answers, and a request whose token is
\* cancelled is aborted.  Nothing makes a backend answer, and the code sets
\* no timer.
SpecFair ==
    /\ SpecSerial
    /\ \A c \in Calls, b \in CopilotBackends :
          WF_vars(SelectNone(c, b) \/ SelectFound(c, b)) /\ WF_vars(ApiAbort(c, b))

\* ------------------------------------------------------------- texts
\* \w+
IsWord(token) == token \in DOMAIN WordLength
\* \s
IsSpace(token) == token \in {Space, Newline}

\* String.prototype.toLowerCase on a word
ToLowerCase(word) == IF word = "Code" THEN "code" ELSE word

\* String.prototype.trim
RECURSIVE TrimStart(_)
TrimStart(t) ==
    IF t # <<>> /\ IsSpace(Head(t)) THEN TrimStart(Tail(t)) ELSE t

RECURSIVE TrimEnd(_)
TrimEnd(t) ==
    IF t # <<>> /\ IsSpace(t[Len(t)]) THEN TrimEnd(SubSeq(t, 1, Len(t) - 1)) ELSE t

Trim(t) == TrimEnd(TrimStart(t))

\* ------------------------------------------------------------- code blocks
\* The pattern  fence (\w+)? \s* \n ([\s\S]*?) \n fence  tried at position s of t: the match (its
\* language group, its body group and the position after it), or found FALSE.
\* (\w+)? takes the word after the fence when there is one; \s* takes as
\* much of the white space that follows as leaves a newline for \n and a
\* later newline and fence for the rest; ([\s\S]*?) ends at the first
\* newline followed by a fence.
NoMatch == [found |-> FALSE]

MatchAt(t, s) ==
    IF t[s] # Fence THEN NoMatch
    ELSE
      LET tagged == s + 1 <= Len(t) /\ IsWord(t[s + 1])
          from == IF tagged THEN s + 2 ELSE s + 1
          \* the white space after the tag: positions from..stop
          white == {m \in from..Len(t) : \A k \in from..m : IsSpace(t[k])}
          Closes(m) == {e \in (m + 1)..(Len(t) - 1) :
                           t[e] = Newline /\ t[e + 1] = Fence}
          newlines == {m \in white : t[m] = Newline /\ Closes(m) # {}}
      IN  IF newlines = {} THEN NoMatch
          ELSE LET m == CHOOSE x \in newlines : \A y \in newlines : y <= x
                   e == CHOOSE x \in Closes(m) : \A y \in Closes(m) : x <= y
               IN  [found |-> TRUE,
                    language |-> IF tagged THEN <<t[s + 1]>> ELSE <<>>,
                    body |-> SubSeq(t, m + 1, e - 1),
                    lastIndex |-> e + 2]

\* match[1] || 'plaintext'
LanguageOf(group) == IF group = <<>> THEN "plaintext" ELSE group[1]

\* while ((match = codeBlockRegex.exec(text)) !== null) blocks.push(...)
RECURSIVE ExecFrom(_, _)
ExecFrom(t, lastIndex) ==
    LET starts == {s \in lastIndex..Len(t) : MatchAt(t, s).found}
    IN  IF starts = {} THEN <<>>
        ELSE LET s == CHOOSE x \in starts : \A y \in starts : x <= y
                 match == MatchAt(t, s)
             IN  <<[language |-> LanguageOf(match.language),
                    code |-> Trim(match.body),
                    source |-> "unknown"]>>
                   \o ExecFrom(t, match.lastIndex)

extractCodeBlocksFromText(t) == ExecFrom(t, 1)

\* a fenced code region: its language tag (<<>>: none) and its body; written
\* as an opening line, the body's lines and a closing line
RegionTags == {<<>>, <<"js">>}
RegionBodies ==
    {<<>>, <<"x">>, <<"loop", Newline, "y">>, <<"for", Space, "x">>,
     <<"try", Space, "recursion">>, <<"-", Space, "x">>}
Regions == [tag : RegionTags, body : RegionBodies]

WriteRegion(region) ==
    <<Fence>> \o region.tag \o <<Newline>>
      \o (IF region.body = <<>> THEN <<>> ELSE region.body \o <<Newline>>)
      \o <<Fence, Newline>>

RECURSIVE WriteRegions(_)
WriteRegions(rs) ==
    IF rs = <<>> THEN <<>> ELSE WriteRegion(Head(rs)) \o WriteRegions(Tail(rs))

RECURSIVE RegionsOfLength(_)
RegionsOfLength(n) ==
    IF n = 0 THEN {<<>>}
    ELSE {Append(rs, r) : rs \in RegionsOfLength(n - 1), r \in Regions}

\* the prose before the regions: a line, a list of six items, or four
\* sentences
ProseLine == <<"the", Space, "code", Newline>>
ProseList ==
    <<"-", Space, "x", Newline, "-", Space, "y", Newline,
      "*", Space, "loop", Newline, "1", ".", Space, "code", Newline,
      "2", ".", Space, "x", Newline, "-", Space, "y", Newline>>
ProseSentences ==
    <<"the", Space, "important", Space, "function", Space, "uses", Space, "loop", ".", Space,
      "the", Space, "key", Space, "function", Space, "uses", Space, "array", ".", Space,
      "note", Space, "the", Space, "function", Space, "uses", Space, "class", "!", Space,
      "the", Space, "essential", Space, "method", Space, "uses", Space, "loop", ".", Newline>>
Proses == {ProseLine, ProseList, ProseSentences}

\* the texts of at most MaxRegions regions, after the prose
InitBlocks ==
    /\ regions \in UNION {RegionsOfLength(n) : n \in 0..MaxRegions}
    /\ \E prose \in Proses : markdown = prose \o WriteRegions(regions)
    /\ given = <<>>
    /\ report = NoReport
    /\ blocks = [called |-> FALSE, list |-> <<>>]
    /\ catalog = <<>> /\ defaultModels = <<>> /\ hserial = TRUE
    /\ HandlerAtRest /\ ServiceAtRest

\* ------------------------------------------------------------- key terms
\* the word lists of isCommonWord, isProgrammingTerm and isTechnicalTerm
commonWords ==
    {"the", "and", "for", "are", "but", "not", "you", "all", "can", "had",
     "her", "was", "one", "our", "out", "day", "get", "has", "him", "his",
     "how", "its", "may", "new", "now", "old", "see", "two", "who", "boy",
     "did", "does", "let", "put", "say", "she", "too", "use"}

programmingTerms ==
    {"function", "variable", "array", "object", "method", "class", "loop",
     "condition", "string", "number", "boolean", "algorithm", "code",
     "syntax", "parameter", "return", "import", "export", "const", "async",
     "await"}

technicalTerms ==
    {"implementation", "optimization", "performance", "complexity",
     "efficiency", "recursion", "iteration", "debugging", "testing",
     "documentation"}

isCommonWord(word) == ToLowerCase(word) \in commonWords
isProgrammingTerm(word) == ToLowerCase(word) \in programmingTerms
isTechnicalTerm(word) == ToLowerCase(word) \in technicalTerms

\* text.toLowerCase()
LowerText(t) == [k \in 1..Len(t) |-> ToLowerCase(t[k])]

\* text.match(/\b\w+\b/g) || []
Words(t) == SelectSeq(t, IsWord)

\* the predicate of words.filter(...)
IsKeyTerm(word) ==
    /\ WordLength[word] > 3
    /\ ~isCommonWord(word)
    /\ (isProgrammingTerm(word) \/ isTechnicalTerm(word))

Range(seq) == {seq[k] : k \in 1..Len(seq)}

\* [...new Set(seq)]: the first occurrence of each element, in order
RECURSIVE Unique(_)
Unique(seq) ==
    IF seq = <<>> THEN <<>>
    ELSE LET front == Unique(SubSeq(seq, 1, Len(seq) - 1))
             last == seq[Len(seq)]
         IN  IF last \in Range(front) THEN front ELSE Append(front, last)

extractKeyTerms(t) == Unique(SelectSeq(Words(t), IsKeyTerm))

\* ------------------------------------------------------------- similarity
\* A number that is a quotient of counts is kept as a fraction in lowest
\* terms, [num, den] with den > 0.
RECURSIVE GCD(_, _)
GCD(a, b) == IF b = 0 THEN a ELSE GCD(b, a % b)

Fraction(n, d) ==
    LET g == GCD(n, d) IN [num |-> n \div g, den |-> d \div g]

Zero == [num |-> 0, den |-> 1]
One == [num |-> 1, den |-> 1]

\* a + b
Plus(a, b) == Fraction(a.num * b.den + b.num * a.den, a.den * b.den)
\* a / n
Over(a, n) == Fraction(a.num, a.den * n)

\* a faulty variant: the overlap is taken over the first response's terms
OverlapOfFirst(words1, words2) ==
    LET set1 == Range(words1)
        set2 == Range(words2)
    IN  IF Cardinality(set1) > 0
        THEN Fraction(Cardinality(set1 \cap set2), Cardinality(set1))
        ELSE Zero

calculateTextSimilarity(words1, words2) ==
    LET set1 == Range(words1)
        set2 == Range(words2)
        intersection == {x \in set1 : x \in set2}
        union == set1 \cup set2
    IN  IF Cardinality(union) > 0
        THEN Fraction(Cardinality(intersection), Cardinality(union))
        ELSE Zero

\* the loops over i and j > i, from the pair (i, j) on: [total, comparisons]
RECURSIVE SimilarityLoop(_, _, _)
SimilarityLoop(allWords, i, j) ==
    IF i > Len(allWords) THEN [total |-> Zero, comparisons |-> 0]
    ELSE IF j > Len(allWords) THEN SimilarityLoop(allWords, i + 1, i + 2)
    ELSE LET rest == SimilarityLoop(allWords, i, j + 1)
         IN  [total |-> Plus(calculateTextSimilarity(allWords[i], allWords[j]),
                             rest.total),
              comparisons |-> rest.comparisons + 1]

calculateSimilarity(responses) ==
    IF Len(responses) < 2 THEN One
    ELSE LET allWords == [k \in 1..Len(responses) |->
                             extractKeyTerms(LowerText(responses[k].response))]
             sum == SimilarityLoop(allWords, 1, 2)
         IN  IF sum.comparisons > 0 THEN Over(sum.total, sum.comparisons)
             ELSE Zero

\* ------------------------------------------------------------- common points
RECURSIVE Flatten(_)
Flatten(seqs) == IF seqs = <<>> THEN <<>> ELSE Head(seqs) \o Flatten(Tail(seqs))

\* blocks.forEach(block => allBlocks.push({...block, source: response.model}))
WithSource(found, model) ==
    [b \in 1..Len(found) |-> [found[b] EXCEPT !.source = model]]

\* extractAllCodeBlocks: every response's blocks, source set to its model
extractAllCodeBlocks(responses) ==
    Flatten([k \in 1..Len(responses) |->
        WithSource(extractCodeBlocksFromText(responses[k].response),
                   responses[k].model)])

\* seq.slice(0, n)
Slice(seq, n) == SubSeq(seq, 1, IF Len(seq) < n THEN Len(seq) ELSE n)

\* allCodeBlocks.map(b => b.language)
Languages(allCodeBlocks) ==
    [b \in 1..Len(allCodeBlocks) |-> allCodeBlocks[b].language]

\* the property names that are array indices, in ascending numeric order (a
\* tag of the texts has one digit at most)
IndexKeys == <<"0", "1", "2", "3", "4", "5", "6", "7", "8", "9">>

\* the order in which Object.entries lists the keys of an object they were
\* inserted into in the given order: the array indices first, ascending, then
\* the other names in insertion order
OwnKeys(inserted) ==
    SelectSeq(IndexKeys, LAMBDA key : key \in Range(inserted))
      \o SelectSeq(inserted, LAMBDA key : key \notin Range(IndexKeys))

\* Object.entries(languageFreq) with count > 1: the keys of languageFreq,
\* those counted more than once kept
FrequentLanguages(languages) ==
    LET languageFreq(lang) ==
            Cardinality({b \in 1..Len(languages) : languages[b] = lang})
    IN  SelectSeq(OwnKeys(Unique(languages)), LAMBDA lang : languageFreq(lang) > 1)

\* patterns.push(...) for each such language
LanguagePatterns(frequent) ==
    [k \in 1..Len(frequent) |->
        <<"Both use ", frequent[k], " for implementation">>]

findCommonCodePatterns(responses) ==
    LanguagePatterns(FrequentLanguages(Languages(extractAllCodeBlocks(responses))))

\* a faulty variant: the share is rounded down
ThresholdFloor(n) == (7 * n) \div 10
\* Math.ceil(n * 0.7)
Threshold(n) == (7 * n + 9) \div 10

findCommonPoints(responses) ==
    IF Len(responses) < 2 THEN <<>>
    ELSE LET allWords == [k \in 1..Len(responses) |->
                             extractKeyTerms(LowerText(responses[k].response))]
             \* the keys of termFrequency, in insertion order
             keys == Unique(Flatten(allWords))
             termFrequency(term) ==
                 Cardinality({k \in 1..Len(allWords) : term \in Range(allWords[k])})
             threshold == Threshold(Len(responses))
             Common(term) ==
                 termFrequency(term) >= threshold /\ WordLength[term] > 3
             common == SelectSeq(keys, Common)
             commonPoints == [k \in 1..Len(common) |->
                                 <<"Both models mention ", common[k]>>]
         IN  Slice(commonPoints \o findCommonCodePatterns(responses), 5)

\* ------------------------------------------------------------- key differences
\* /\b(w1|w2|...)\b/.test(t): a word of the text is one of the given words
HasWord(t, words) == \E k \in 1..Len(t) : t[k] \in words

\* /\b(first.second)\b/.test(t) and /\b(first.second.third)\b/.test(t): the
\* words of the phrase in a row, any one character other than a line break
\* between two of them
AnyCharacter(token) == CharLen(token) = 1 /\ ~IsWord(token) /\ token # Newline

HasPhrase(t, phrase) ==
    \E k \in 1..Len(t) :
        /\ k + 2 * (Len(phrase) - 1) <= Len(t)
        /\ \A i \in 1..Len(phrase) : t[k + 2 * (i - 1)] = phrase[i]
        /\ \A i \in 1..(Len(phrase) - 1) : AnyCharacter(t[k + 2 * i - 1])

\* the score one code block adds
BlockScore(code) ==
    (IF HasWord(code, {"for", "while", "foreach"}) THEN 1 ELSE 0)
      + (IF HasWord(code, {"if", "else", "switch"}) THEN 1 ELSE 0)
      + (IF HasWord(code, {"class", "function", "def", "async"}) THEN 1 ELSE 0)
      + (IF HasWord(code, {"try", "catch", "exception"}) THEN 2 ELSE 0)
      + (IF HasWord(code, {"recursion", "recursive"}) THEN 3 ELSE 0)

\* codeBlocks.forEach(block => ... complexityScore += ...)
RECURSIVE complexityScore(_)
complexityScore(codeBlocks) ==
    IF codeBlocks = <<>> THEN 0
    ELSE BlockScore(LowerText(Head(codeBlocks).code))
           + complexityScore(Tail(codeBlocks))

assessCodeComplexity(t) ==
    LET codeBlocks == extractCodeBlocksFromText(t)
    IN  IF Len(codeBlocks) = 0 THEN "Low"
        ELSE IF complexityScore(codeBlocks) >= 6 THEN "High"
        ELSE IF complexityScore(codeBlocks) >= 3 THEN "Medium"
        ELSE "Low"

\* the approaches one response adds, in the order of the tests
ApproachesOf(t) ==
    (IF HasWord(t, {"class", "inheritance"}) \/ HasPhrase(t, <<"object", "oriented">>)
     THEN <<"Object-Oriented">> ELSE <<>>)
      \o (IF HasWord(t, {"functional", "lambda", "map", "filter", "reduce"})
          THEN <<"Functional">> ELSE <<>>)
      \o (IF HasWord(t, {"procedural"}) \/ HasPhrase(t, <<"step", "by", "step">>)
          THEN <<"Procedural">> ELSE <<>>)
      \o (IF HasWord(t, {"async", "await", "promise", "callback"})
          THEN <<"Asynchronous">> ELSE <<>>)

identifyProgrammingApproaches(responses) ==
    Unique(Flatten([k \in 1..Len(responses) |->
                       ApproachesOf(LowerText(responses[k].response))]))

\* pieces.join(', ')
RECURSIVE Join(_)
Join(pieces) ==
    IF pieces = <<>> THEN <<>>
    ELSE IF Len(pieces) = 1 THEN Head(pieces)
    ELSE Head(pieces) \o <<", ">> \o Join(Tail(pieces))

\* Math.max(...lengths), Math.min(...lengths)
Max(numbers) == CHOOSE x \in numbers : \A y \in numbers : y <= x
Least(numbers) == CHOOSE x \in numbers : \A y \in numbers : x <= y

\* responses.find(r => r.response.length === n)
Find(responses, n) ==
    responses[Least({k \in 1..Len(responses) : TextLength(responses[k].response) = n})]

\* a faulty variant: the boundary is included
DisparateOrEqual(maxLength, minLength) == 2 * maxLength >= 3 * minLength
\* maxLength / minLength > 1.5, a division by 0 giving Infinity, or NaN for 0 / 0
Disparate(maxLength, minLength) == 2 * maxLength > 3 * minLength

findKeyDifferences(responses) ==
    IF Len(responses) < 2 THEN <<>>
    ELSE
      LET lengths == {TextLength(responses[k].response) : k \in 1..Len(responses)}
          maxLength == Max(lengths)
          minLength == Least(lengths)
          longResponse == Find(responses, maxLength)
          codeComplexities ==
              [k \in 1..Len(responses) |->
                  [model |-> responses[k].model,
                   complexity |-> assessCodeComplexity(responses[k].response)]]
          complexityLevels ==
              Unique([k \in 1..Len(responses) |-> codeComplexities[k].complexity])
          approaches == identifyProgrammingApproaches(responses)
      IN  (IF Disparate(maxLength, minLength)
           THEN <<[aspect |-> "Response Length",
                   description |->
                       <<longResponse.model, " provides more detailed explanation (",
                         ToString(maxLength), " chars vs ", ToString(minLength),
                         " chars)">>]>>
           ELSE <<>>)
            \o (IF Len(complexityLevels) > 1
                THEN <<[aspect |-> "Code Complexity",
                        description |->
                            <<"Different complexity levels: ">>
                              \o Join([k \in 1..Len(responses) |->
                                         <<codeComplexities[k].model, " (",
                                           codeComplexities[k].complexity, ")">>])]>>
                ELSE <<>>)
            \o (IF Len(approaches) > 1
                THEN <<[aspect |-> "Programming Approach",
                        description |->
                            <<"Different approaches used: ">>
                              \o Join([k \in 1..Len(approaches) |-> <<approaches[k]>>])]>>
                ELSE <<>>)

\* analysis[response.model] = {...}: the entries in the order of the
\* responses, a later response of the same model replacing the earlier one
analyzeCodeBlocks(responses) ==
    [model \in {responses[k].model : k \in 1..Len(responses)} |->
        LET last == Max({k \in 1..Len(responses) : responses[k].model = model})
            codeBlocks == extractCodeBlocksFromText(responses[last].response)
        IN  [blockCount |-> Len(codeBlocks),
             languages |-> Unique([b \in 1..Len(codeBlocks) |-> codeBlocks[b].language]),
             complexity |-> assessCodeComplexity(responses[last].response)]]

\* ------------------------------------------------------------- explanation sections
\* the characters of the bullet class (a hyphen, an asterisk, the bullet
\* U+2022), and \d+
Bullets == {"-", "*", "[bullet]"}
IsDigits(token) == token \in {"1", "2"}

\* ^ with the m flag
LineStart(t, s) == s = 1 \/ t[s - 1] = Newline

\* the first position from s on that holds no white space
RECURSIVE SkipSpace(_, _)
SkipSpace(t, s) ==
    IF s <= Len(t) /\ IsSpace(t[s]) THEN SkipSpace(t, s + 1) ELSE s

\* the last position of the line that position k is on
RECURSIVE LineEnd(_, _)
LineEnd(t, k) ==
    IF k + 1 <= Len(t) /\ t[k + 1] # Newline THEN LineEnd(t, k + 1) ELSE k

\* /^[\s]*[bullet]\s+(.+)$/m and /^[\s]*\d+\.\s+(.+)$/m tried at position s:
\* the white space, the marker (a bullet, or digits and a dot), then \s+
\* taking as much white space as leaves a character of the line for (.+)
ItemAt(t, s, numbered) ==
    LET i == SkipSpace(t, s)
        marked == IF numbered
                  THEN i + 1 <= Len(t) /\ IsDigits(t[i]) /\ t[i + 1] = "."
                  ELSE i <= Len(t) /\ t[i] \in Bullets
        next == IF numbered THEN i + 2 ELSE i + 1
        starts == {k \in (next + 1)..Len(t) :
                      /\ \A x \in next..(k - 1) : IsSpace(t[x])
                      /\ t[k] # Newline}
    IN  IF ~LineStart(t, s) \/ ~marked \/ starts = {} THEN NoMatch
        ELSE LET k == Max(starts)
             IN  [found |-> TRUE,
                  item |-> SubSeq(t, k, LineEnd(t, k)),
                  lastIndex |-> LineEnd(t, k) + 1]

\* while ((match = regex.exec(text)) !== null) points.push(match[1].trim())
RECURSIVE ItemsFrom(_, _, _)
ItemsFrom(t, lastIndex, numbered) ==
    LET starts == {s \in lastIndex..Len(t) : ItemAt(t, s, numbered).found}
    IN  IF starts = {} THEN <<>>
        ELSE LET match == ItemAt(t, Least(starts), numbered)
             IN  <<Trim(match.item)>> \o ItemsFrom(t, match.lastIndex, numbered)

\* text.split(/[.!?]+/)
IsStop(token) == token \in {".", "!", "?"}

RECURSIVE SplitSentences(_, _)
SplitSentences(t, piece) ==
    IF t = <<>> THEN <<piece>>
    ELSE IF IsStop(Head(t))
    THEN IF Len(t) > 1 /\ IsStop(t[2]) THEN SplitSentences(Tail(t), piece)
         ELSE <<piece>> \o SplitSentences(Tail(t), <<>>)
    ELSE SplitSentences(Tail(t), Append(piece, Head(t)))

\* text.split('\n\n')
RECURSIVE SplitParagraphs(_, _)
SplitParagraphs(t, piece) ==
    IF t = <<>> THEN <<piece>>
    ELSE IF Len(t) > 1 /\ t[1] = Newline /\ t[2] = Newline
    THEN <<piece>> \o SplitParagraphs(Tail(Tail(t)), <<>>)
    ELSE SplitParagraphs(Tail(t), Append(piece, Head(t)))

IsKeySentence(sentence) ==
    HasWord(LowerText(sentence),
            {"important", "key", "note", "remember", "crucial", "essential"})
IsLongSentence(sentence) == TextLength(Trim(sentence)) > 20

extractKeyPoints(t) ==
    LET listed == ItemsFrom(t, 1, FALSE) \o ItemsFrom(t, 1, TRUE)
        sentences == SelectSeq(SplitSentences(t, <<>>), IsLongSentence)
        keywordSentences == Slice(SelectSeq(sentences, IsKeySentence), 3)
        points == IF Len(listed) = 0
                  THEN [k \in 1..Len(keywordSentences) |-> Trim(keywordSentences[k])]
                  ELSE listed
    IN  Slice(points, 5)

\* responseText.replace(/FENCE[\s\S]*?FENCE/g, '[CODE_BLOCK]')
CodeBlockMark == "[CODE_BLOCK]"

RECURSIVE ReplaceCode(_)
ReplaceCode(t) ==
    IF t = <<>> THEN <<>>
    ELSE IF Head(t) = Fence /\ \E e \in 2..Len(t) : t[e] = Fence
    THEN LET e == Least({x \in 2..Len(t) : t[x] = Fence})
         IN  <<CodeBlockMark>> \o ReplaceCode(SubSeq(t, e + 1, Len(t)))
    ELSE <<Head(t)>> \o ReplaceCode(Tail(t))

IsParagraph(paragraph) ==
    TextLength(Trim(paragraph)) > 10 /\ CodeBlockMark \notin Range(paragraph)

\* a field that is undefined is left out
extractExplanationSections(responseText) ==
    LET paragraphs ==
            SelectSeq(SplitParagraphs(ReplaceCode(responseText), <<>>), IsParagraph)
    IN  [codeBlocks |-> extractCodeBlocksFromText(responseText),
         keyPoints |-> extractKeyPoints(responseText),
         introduction |-> IF paragraphs = <<>> THEN <<>>
                          ELSE <<Trim(paragraphs[1])>>,
         conclusion |-> IF Len(paragraphs) > 1
                        THEN <<Trim(paragraphs[Len(paragraphs)])>> ELSE <<>>]

analyzeResponses(responses) ==
    [overallSimilarity |-> calculateSimilarity(responses),
     commonPoints |-> findCommonPoints(responses),
     keyDifferences |-> findKeyDifferences(responses),
     codeAnalysis |-> analyzeCodeBlocks(responses)]

\* ------------------------------------------------------------- formatter
\* responses.filter(r => !r.error): error is undefined or the empty string
Falsy(message) == message = <<>>
NotError(r) == ~HasError(r) \/ Falsy(r.error)
successfulResponses(responses) == SelectSeq(responses, NotError)

formatAnalysis(responses) ==
    LET successful == successfulResponses(responses)
    IN  IF Len(successful) < 2
        THEN [NoReport EXCEPT !.op = "formatAnalysis", !.insufficient = TRUE]
        ELSE [NoReport EXCEPT !.op = "formatAnalysis",
                              !.analysed = successful,
                              !.result = <<analyzeResponses(successful)>>]

formatExplanations(responses) ==
    LET successful == successfulResponses(responses)
    IN  [NoReport EXCEPT !.op = "formatExplanations",
                         !.sections = successful,
                         !.compared = IF Len(successful) > 1 THEN successful
                                      ELSE <<>>]

\* an Error thrown with no message
NoMessage == [cls |-> "Error", msg |-> <<>>, words |-> {}]

\* response texts
TextLoop == <<"the", Space, "function", Space, "uses", Space, "loop">>
TextPlain == <<"x", Space, "and", Space, "y">>
TextTerms ==
    <<"function", Space, "variable", Space, "array", Space, "method", Space,
      "class", Space, "loop">>
TextBlock ==
    <<"Code", Space, "does", Space, "loop", Newline,
      Fence, "js", Newline, "return", Space, "x", Newline, Fence, Newline,
      Fence, "js", Newline, "y", Newline, Fence, Newline>>

\* the entries compareModels can return
Entries ==
    {SuccessEntry("GPT", TextLoop, 0, 1), SuccessEntry("GPT", TextTerms, 0, 1),
     SuccessEntry("Claude", TextPlain, 0, 1), SuccessEntry("Gemini", TextBlock, 0, 1)}
      \cup {ErrorEntry("Claude", ErrorMessage("Claude", error), 0, 1) :
               error \in {RequestCancelled, NoMessage}}

RECURSIVE ResponsesOfLength(_)
ResponsesOfLength(n) ==
    IF n = 0 THEN {<<>>}
    ELSE {Append(rs, r) : rs \in ResponsesOfLength(n - 1), r \in Entries}

InitFormat ==
    /\ given \in UNION {ResponsesOfLength(n) : n \in 0..MaxResponses}
    /\ report = NoReport
    /\ regions = <<>> /\ markdown = <<>>
    /\ blocks = [called |-> FALSE, list |-> <<>>]
    /\ catalog = <<>> /\ defaultModels = <<>> /\ hserial = TRUE
    /\ HandlerAtRest /\ ServiceAtRest

FormatAnalysis ==
    /\ report.op = "none"
    /\ report' = formatAnalysis(given)
    /\ UNCHANGED <<svars, hvars, given, regions, markdown, blocks>>

FormatExplanations ==
    /\ report.op = "none"
    /\ report' = formatExplanations(given)
    /\ UNCHANGED <<svars, hvars, given, regions, markdown, blocks>>

NextFormat == FormatAnalysis \/ FormatExplanations

SpecFormat == InitFormat /\ [][NextFormat]_vars

\* extractCodeBlocksFromText applied to the text
ExtractBlocks ==
    /\ ~blocks.called
    /\ blocks' = [called |-> TRUE, list |-> extractCodeBlocksFromText(markdown)]
    /\ UNCHANGED <<svars, hvars, given, report, regions, markdown>>

\* assessCodeComplexity applied to the text
AssessComplexity ==
    /\ report.op = "none"
    /\ report' = [NoReport EXCEPT !.op = "assessCodeComplexity",
                                  !.result = <<assessCodeComplexity(markdown)>>]
    /\ UNCHANGED <<svars, hvars, given, regions, markdown, blocks>>

\* extractExplanationSections applied to the text
ExtractSections ==
    /\ report.op = "none"
    /\ report' = [NoReport EXCEPT !.op = "extractExplanationSections",
                                  !.result = <<extractExplanationSections(markdown)>>]
    /\ UNCHANGED <<svars, hvars, given, regions, markdown, blocks>>

NextBlocks == ExtractBlocks \/ AssessComplexity \/ ExtractSections

SpecBlocks == InitBlocks /\ [][NextBlocks]_vars

\* responses of 0, 7, 80, 120 and 121 characters
Text80 == <<Word80>>
Text120 == <<Word80, Space, Word39>>
Text121 == <<Word80, Space, Word40>>

LengthEntries ==
    {SuccessEntry("GPT", Text80, 0, 1), SuccessEntry("Claude", Text120, 0, 1),
     SuccessEntry("Gemini", Text121, 0, 1), SuccessEntry("Claude", TextPlain, 0, 1),
     SuccessEntry("GPT", <<>>, 0, 1)}

RECURSIVE LengthsOfLength(_)
LengthsOfLength(n) ==
    IF n = 0 THEN {<<>>}
    ELSE {Append(rs, r) : rs \in LengthsOfLength(n - 1), r \in LengthEntries}

InitLengths ==
    /\ given \in UNION {LengthsOfLength(n) : n \in 0..MaxResponses}
    /\ report = NoReport
    /\ regions = <<>> /\ markdown = <<>>
    /\ blocks = [called |-> FALSE, list |-> <<>>]
    /\ catalog = <<>> /\ defaultModels = <<>> /\ hserial = TRUE
    /\ HandlerAtRest /\ ServiceAtRest

\* analyzeResponses applied to the responses
Analyze ==
    /\ report.op = "none"
    /\ report' = [NoReport EXCEPT !.op = "analyzeResponses",
                                  !.analysed = given,
                                  !.result = <<analyzeResponses(given)>>]
    /\ UNCHANGED <<svars, hvars, given, regions, markdown, blocks>>

SpecLengths == InitLengths /\ [][Analyze]_vars

\* ------------------------------------------------------------- claims
Returned(c) == call[c].pc = "returned"

\* the sequence call c returned
Result(c) == heap[call[c].ret]

\* the positions of the entries of backend b in a sequence of responses
EntriesOf(R, b) ==
    {i \in 1..Len(R) : R[i].model \in {ModelName(b), ErrorModelName(b)}}

\* the backend an entry belongs to, as its place in the start order
Rank(e) ==
    CHOOSE k \in 1..Len(TaskOrder) :
        e.model \in {ModelName(TaskOrder[k]), ErrorModelName(TaskOrder[k])}

\* C1: a compareModels call over the 2 Copilot backends in which one task's
\* request threw and the other succeeded returns exactly 2 entries: the
\* failed backend's entry with error set and empty text, and the sibling's
\* normal entry carrying the sibling's full text.
C1_OneFailureDoesNotAbortSibling ==
    \A c \in Calls :
        (Returned(c) /\ call[c].kind = "compare" /\ call[c].tasks = {"GPT", "Claude"})
        => \A f \in call[c].tasks, o \in call[c].tasks :
             (f # o /\ task[c][f].error # <<>> /\ task[c][o].error = <<>>)
             => /\ Len(Result(c)) = 2
                /\ \E i \in 1..2, j \in 1..2 :
                     /\ i # j
                     /\ HasError(Result(c)[i])
                     /\ Result(c)[i].response = <<>>
                     /\ Result(c)[i].model = ErrorModelName(f)
                     /\ ~HasError(Result(c)[j])
                     /\ Result(c)[j].model = ModelName(o)
                     /\ Result(c)[j].response = task[c][o].full

\* a call returned in which GPT failed and Claude streamed a non-empty text
C1_Witness ==
    \E c \in Calls :
        /\ Returned(c) /\ call[c].kind = "compare"
        /\ call[c].tasks = {"GPT", "Claude"}
        /\ task[c]["GPT"].error # <<>>
        /\ task[c]["Claude"].error = <<>>
        /\ task[c]["Claude"].full # <<>>

\* C2: within one call every task writes exactly one entry, when it settles
\* and not before, so the returned sequence has one entry per task started:
\* 2 for compareModels, 3 when Gemini is enabled with a key.
C2_OneEntryPerTask ==
    \A c \in Calls :
        /\ InFlight(c) =>
             \A b \in Backends :
                Cardinality(EntriesOf(heap[thisResponses], b)) =
                   IF b \in call[c].tasks /\ task[c][b].pc = "done" THEN 1 ELSE 0
        /\ Returned(c) =>
             /\ \A b \in Backends :
                   Cardinality(EntriesOf(Result(c), b)) =
                      IF b \in call[c].tasks THEN 1 ELSE 0
             /\ call[c].kind = "compare" =>
                   Len(Result(c)) =
                      IF call[c].gemini /\ call[c].key = "AIza-key" THEN 3 ELSE 2

\* a compareModels call returned 3 entries, errors and successes mixed
C2_Witness ==
    \E c \in Calls :
        /\ Returned(c) /\ call[c].kind = "compare"
        /\ Len(Result(c)) = 3
        /\ \E i \in 1..3, j \in 1..3 :
              HasError(Result(c)[i]) /\ ~HasError(Result(c)[j])

\* C3: the sequence compareModels returns is sorted ascending by timestamp
\* (the task's start time), whatever the order the tasks completed in.
C3_SortedByStartTime ==
    \A c \in Calls :
        (Returned(c) /\ call[c].kind = "compare")
        => \A i \in 1..(Len(Result(c)) - 1) :
              Result(c)[i].timestamp <= Result(c)[i + 1].timestamp

\* Claude started after GPT and pushed before it, and the call returned
C3_Witness ==
    \E c \in Calls :
        /\ Returned(c) /\ call[c].kind = "compare"
        /\ task[c]["GPT"].startTime < task[c]["Claude"].startTime
        /\ task[c]["Claude"].pos < task[c]["GPT"].pos
        /\ Result(c)[1].model \in {ModelName("GPT"), ErrorModelName("GPT")}

\* C4: the backends of the returned sequence are in the same order in every
\* run.  A run in which the tasks complete in the order they started returns
\* them in that order, so every run has to.
C4_OrderIndependentOfCompletion ==
    \A c \in Calls :
        (Returned(c) /\ call[c].kind = "compare")
        => \A i \in 1..Len(Result(c)), j \in 1..Len(Result(c)) :
              i < j => Rank(Result(c)[i]) < Rank(Result(c)[j])

CancellationMessages == {<<"Request cancelled">>, <<"Canceled">>}

\* C5: once the token of a call is cancelled, every task of the call that
\* settles does so with an error entry (empty text, cancellation as the
\* error), and the entries recorded before the cancellation are kept.
C5_UnfinishedTasksEndCancelled ==
    [][\A c \in Calls :
          /\ \A b \in Backends :
                (cancelled'[c] /\ task[c][b].pc \notin {"none", "done"}
                   /\ task'[c][b].pc = "done")
                => /\ task'[c][b].error \in CancellationMessages
                   /\ \E i \in 1..Len(heap'[thisResponses]) :
                         /\ heap'[thisResponses][i].model = ErrorModelName(b)
                         /\ heap'[thisResponses][i].response = <<>>
                         /\ HasError(heap'[thisResponses][i])
          /\ (~cancelled[c] /\ cancelled'[c])
                => \A i \in 1..Len(heap[thisResponses]) :
                      \E j \in 1..Len(heap'[thisResponses]) :
                         heap'[thisResponses][j] = heap[thisResponses][i]
      ]_vars

\* C6: every call that is in flight eventually returns, cancelled or not.
C6_EveryCallResolves ==
    \A c \in Calls : InFlight(c) ~> ~InFlight(c)

OtherCallWithCompare(c) ==
    \E d \in Calls \ {c} :
        call[d].pc # "idle" /\ "compare" \in {call[c].kind, call[d].kind}

\* C8: of two calls on the service of which one at least is compareModels,
\* each returns exactly the responses of its own tasks for its own prompt: one
\* entry per task it started, and no text of the other prompt.
C8_CallsDoNotShareResponses ==
    \A c \in Calls :
        (Returned(c) /\ OtherCallWithCompare(c))
        => /\ Len(Result(c)) = Cardinality(call[c].tasks)
           /\ \A b \in call[c].tasks : Cardinality(EntriesOf(Result(c), b)) = 1
           /\ \A i \in 1..Len(Result(c)) :
                 \A k \in 1..Len(Result(c)[i].response) :
                    Result(c)[i].response[k] \in
                       {call[c].prompt, "No response generated"}

\* ---- compareRequestHandler
Min(a, b) == IF a < b THEN a ELSE b
Started(v) == \E i \in Slots : htask[v][i].pc # "none"
ChosenIds(v) == {handler[v].modelIds[i] : i \in 1..Len(handler[v].modelIds)}

\* C7: a request with fewer than 2 resolved backends (from the defaults or
\* from auto-resolution) is refused with no task started, and only such a
\* request is refused.
C7_FewerThanTwoRefused ==
    \A v \in Invocations :
        /\ handler[v].pc \in {"refused", "running", "done"}
           => handler[v].modelIds =
                 IF Len(defaultModels) >= 2 THEN defaultModels ELSE resolved.ids
        /\ handler[v].pc = "refused"
           => Len(handler[v].modelIds) < 2 /\ ~Started(v)
        /\ handler[v].pc \in {"running", "done"} => Len(handler[v].modelIds) >= 2

C7_Witness ==
    \E v \in Invocations :
        /\ handler[v].pc = "refused"
        /\ Len(handler[v].modelIds) = 1
        /\ Len(defaultModels) = 1

\* C9: once the fan-out of compareRequestHandler has settled, comparisonData
\* holds an entry for each backend of the chosen set and for no other.
C9_OneEntryPerBackend ==
    \A v \in Invocations :
        handler[v].pc = "done" => DOMAIN comparisonData = ChosenIds(v)

\* what the code does keep: the full text of each backend whose stream ended
C9_Witness ==
    \E v \in Invocations :
        /\ handler[v].pc = "done"
        /\ DOMAIN comparisonData # ChosenIds(v)
        /\ DOMAIN comparisonData # {}

\* C10: auto-resolution returns the ids of the first 2 models of
\* tier1 ++ tier2 ++ tier3 of the catalog, each tier in catalog order, and
\* takes a model outside tier 1 only if tier 1 has fewer than 2 models.
C10_FirstTwoOfTiers ==
    LET tier1 == SelectSeq(catalog, LAMBDA m : Includes(m.family, "-mini"))
        tier2 == SelectSeq(catalog, LAMBDA m : Includes(m.family, "gpt-4.0"))
        tier3 == SelectSeq(catalog, LAMBDA m : ~Includes(m.family, "-mini")
                                               /\ ~Includes(m.family, "gpt-4.0"))
        tiers == tier1 \o tier2 \o tier3
    IN  resolved.called
        => /\ Len(resolved.ids) = Min(2, Len(tiers))
           /\ \A i \in 1..Len(resolved.ids) : resolved.ids[i] = tiers[i].id
           /\ \A i \in 1..Len(resolved.ids) :
                 (\A k \in 1..Len(tier1) : tier1[k].id # resolved.ids[i])
                 => Len(tier1) < 2

C10_Witness ==
    /\ resolved.called
    /\ catalog = <<ModelClaude, ModelGpt4, ModelMini>>
    /\ resolved.ids = <<ModelMini.id, ModelGpt4.id>>

\* ---- addModelEval
\* C11: the command run while no prompt was ever submitted is refused before
\* any work: no catalog is asked for, no model is picked or queried, and
\* comparisonData is as it was.
C11_NoPromptRefused ==
    (lastPrompt = "" /\ add.pc # "idle")
    => /\ add.pc = "refused"
       /\ add.items = <<>> /\ add.modelId = <<>> /\ add.full = <<>>
       /\ comparisonData = <<>>

C11_Witness == add.pc = "refused" /\ lastPrompt = "" /\ Len(catalog) >= 2

\* C12: the step that completes a successful add of b stores under b the
\* response to the session's prompt and leaves every other entry as it was.
C12_AddMergesOneEntry ==
    [][(add.pc = "stream" /\ add'.pc = "added")
        => /\ add.prompt = lastPrompt
           /\ \A i \in 1..Len(add.full) : add.full[i] = lastPrompt
           /\ DOMAIN comparisonData' = DOMAIN comparisonData \cup {add.modelId}
           /\ comparisonData'[add.modelId] = add.full
           /\ \A k \in DOMAIN comparisonData \ {add.modelId} :
                 comparisonData'[k] = comparisonData[k]
      ]_vars

\* a third model was added, with a text, to a comparison of two
C12_Witness ==
    /\ add.pc = "added"
    /\ Cardinality(DOMAIN comparisonData) = 3
    /\ comparisonData[add.modelId] = <<lastPrompt>>
    /\ \E k \in DOMAIN comparisonData \ {add.modelId} : comparisonData[k] # <<>>

\* C13: an add whose model is not found or whose request fails leaves an
\* entry for that model in comparisonData.
C13_FailedAddLeavesEntry ==
    add.pc = "failed" => add.modelId \in DOMAIN comparisonData

\* the operations are all over
Quiet ==
    /\ add.pc \in {"idle", "refused", "nothing", "dismissed", "added", "failed"}
    /\ \A v \in Invocations : handler[v].pc \in {"idle", "refused", "done"}

\* C14: once the compare requests and adds that were started are over, every
\* text in comparisonData is a response to the prompt of the current session.
C14_OnlyCurrentSession ==
    Quiet => \A k \in DOMAIN comparisonData :
                \A i \in 1..Len(comparisonData[k]) : comparisonData[k][i] = lastPrompt

\* ---- analysis
\* the significant terms of a response
TermSet(r) == Range(extractKeyTerms(LowerText(r.response)))

\* |A \cap B| / |A \cup B|, and 0 when both sets are empty
Jaccard(A, B) ==
    IF A \cup B = {} THEN Zero
    ELSE Fraction(Cardinality(A \cap B), Cardinality(A \cup B))

\* the unordered pairs of positions of a sequence of n responses
Pairs(n) == {p \in (1..n) \X (1..n) : p[1] < p[2]}

RECURSIVE JaccardSum(_, _)
JaccardSum(rs, pairs) ==
    IF pairs = {} THEN Zero
    ELSE LET p == CHOOSE q \in pairs : TRUE
         IN  Plus(Jaccard(TermSet(rs[p[1]]), TermSet(rs[p[2]])),
                  JaccardSum(rs, pairs \ {p}))

\* C15: an entry with error set has empty text and no token estimate, and no
\* error-tagged entry is passed to analyzeResponses, to
\* extractExplanationSections or to compareExplanationQuality.
C15_ErrorEntriesKeptOut ==
    /\ \A k \in 1..Len(given) :
          HasError(given[k])
          => given[k].response = <<>> /\ "tokenCount" \notin DOMAIN given[k]
    /\ \A k \in 1..Len(report.analysed) : ~HasError(report.analysed[k])
    /\ \A k \in 1..Len(report.sections) : ~HasError(report.sections[k])
    /\ \A k \in 1..Len(report.compared) : ~HasError(report.compared[k])

\* C16: when fewer than 2 of the responses given to formatAnalysis carry no
\* error, the call signals insufficient data and obtains no AnalysisResult.
NoError(r) == ~HasError(r)

C16_TooFewSuccessful ==
    (report.op = "formatAnalysis" /\ Len(SelectSeq(given, NoError)) < 2)
    => report.insufficient /\ report.result = <<>>

\* C17: the overallSimilarity of 2 or more analysed responses is the mean of
\* the Jaccard index of their term sets over all N(N-1)/2 unordered pairs,
\* and lies between 0 and 1.
C17_SimilarityIsMeanJaccard ==
    report.result # <<>>
    => LET rs == report.analysed
           n == Len(rs)
           similarity == report.result[1].overallSimilarity
       IN  /\ n >= 2
           /\ 2 * Cardinality(Pairs(n)) = n * (n - 1)
           /\ similarity = Over(JaccardSum(rs, Pairs(n)), Cardinality(Pairs(n)))
           /\ 0 <= similarity.num /\ similarity.num <= similarity.den

\* three responses, one of them without a significant term: the pairs score
\* 1/3, 0 and 0
C17_Witness ==
    /\ report.result # <<>>
    /\ Len(report.analysed) = 3
    /\ \E k \in 1..3 : TermSet(report.analysed[k]) = {}
    /\ report.result[1].overallSimilarity = Fraction(1, 9)

\* C18: two analysed responses with the same text have similarity exactly 1.
C18_IdenticalCopyScoresOne ==
    (/\ report.result # <<>>
     /\ Len(report.analysed) = 2
     /\ report.analysed[1].response = report.analysed[2].response)
    => report.result[1].overallSimilarity = One

\* the term a common point mentions: <<>> when the point is not term-based
MentionedTerm(point) ==
    IF point[1] = "Both models mention " THEN <<point[2]>> ELSE <<>>

Mentioning(rs, term) == {k \in 1..Len(rs) : term \in TermSet(rs[k])}

\* C19: commonPoints has at most 5 entries, and every term it mentions
\* occurs in the term sets of at least ceil(0.7 N) of the N analysed
\* responses.
C19_CommonPointsThreshold ==
    report.result # <<>>
    => LET rs == report.analysed
           points == report.result[1].commonPoints
       IN  /\ Len(points) <= 5
           /\ \A k \in 1..Len(points) :
                 MentionedTerm(points[k]) # <<>>
                 => 10 * Cardinality(Mentioning(rs, MentionedTerm(points[k])[1]))
                      >= 7 * Len(rs)

\* four responses, six terms in three of them: five entries are kept
C19_Witness ==
    /\ report.result # <<>>
    /\ Len(report.analysed) = 4
    /\ Len(report.result[1].commonPoints) = 5
    /\ \E k \in 1..5 :
          /\ MentionedTerm(report.result[1].commonPoints[k]) # <<>>
          /\ Cardinality(Mentioning(report.analysed,
                 MentionedTerm(report.result[1].commonPoints[k])[1])) = 3
    /\ Cardinality({t \in DOMAIN WordLength :
          Cardinality(Mentioning(report.analysed, t)) >= 3}) > 5

\* the common-point candidates among the terms of the responses: the terms
\* that at least ceil(0.7 N) of the N responses mention
Qualifying(rs) ==
    {t \in UNION {TermSet(rs[k]) : k \in 1..Len(rs)} :
        10 * Cardinality(Mentioning(rs, t)) >= 7 * Len(rs)}

\* the terms the common points mention
Retained(points) ==
    {MentionedTerm(points[k])[1] :
        k \in {x \in 1..Len(points) : MentionedTerm(points[x]) # <<>>}}

\* C24: no term kept among the common points is mentioned by fewer
\* responses than a qualifying term that was dropped.
C24_MostFrequentKept ==
    report.result # <<>>
    => LET rs == report.analysed
           kept == Retained(report.result[1].commonPoints)
       IN  \A t \in kept, d \in Qualifying(rs) \ kept :
               Cardinality(Mentioning(rs, t)) >= Cardinality(Mentioning(rs, d))

\* the language a common point says the responses share: <<>> when the point
\* is not about a language
SharedLanguage(point) ==
    IF point[1] = "Both use " THEN <<point[2]>> ELSE <<>>

\* the responses with a code block in a language
Using(rs, language) ==
    {k \in 1..Len(rs) :
        \E b \in 1..Len(extractCodeBlocksFromText(rs[k].response)) :
            extractCodeBlocksFromText(rs[k].response)[b].language = language}

\* C25: every language a common point says is shared is the language of a
\* code block in at least 2 of the analysed responses.
C25_SharedLanguageInTwoResponses ==
    report.result # <<>>
    => LET rs == report.analysed
           points == report.result[1].commonPoints
       IN  \A k \in 1..Len(points) :
               SharedLanguage(points[k]) # <<>>
               => Cardinality(Using(rs, SharedLanguage(points[k])[1])) >= 2

\* C20: from a text written from k fenced code regions, extraction returns k
\* blocks, one per region in order, each with the region's language tag, or
\* "plaintext" for a region without one.
C20_OneBlockPerRegion ==
    blocks.called
    => /\ Len(blocks.list) = Len(regions)
       /\ \A i \in 1..Len(regions) :
             /\ i <= Len(blocks.list)
             /\ blocks.list[i].language =
                   (IF regions[i].tag = <<>> THEN "plaintext" ELSE regions[i].tag[1])


\* the lengths of the analysed responses
Lengths(rs) == {TextLength(rs[k].response) : k \in 1..Len(rs)}

\* the key differences of an aspect
OfAspect(differences, aspect) ==
    SelectSeq(differences, LAMBDA d : d.aspect = aspect)

\* C21: for 2 or more analysed responses the Response Length difference is
\* reported exactly when twice the longest length exceeds three times the
\* shortest (not at 120 and 80, but at 121 and 80), and its description
\* names the model of a longest response and gives both lengths.
C21_LengthDisparity ==
    (report.op = "analyzeResponses" /\ Len(report.analysed) >= 2)
    => LET rs == report.analysed
           longest == Max(Lengths(rs))
           shortest == Least(Lengths(rs))
           fired == OfAspect(report.result[1].keyDifferences, "Response Length")
       IN  /\ Len(fired) = (IF 2 * longest > 3 * shortest THEN 1 ELSE 0)
           /\ (longest = 120 /\ shortest = 80) => fired = <<>>
           /\ (longest = 121 /\ shortest = 80) => fired # <<>>
           /\ fired # <<>>
              => /\ \E k \in 1..Len(rs) :
                       /\ TextLength(rs[k].response) = longest
                       /\ fired[1].description[1] = rs[k].model
                 /\ fired[1].description[3] = ToString(longest)
                 /\ fired[1].description[5] = ToString(shortest)

\* lengths 80 and 121: the difference names the model of the longer response
C21_Witness ==
    /\ report.op = "analyzeResponses"
    /\ Lengths(report.analysed) = {80, 121}
    /\ OfAspect(report.result[1].keyDifferences, "Response Length") =
          <<[aspect |-> "Response Length",
             description |-> <<"Gemini 1.5 Flash", " provides more detailed explanation (",
                               "121", " chars vs ", "80", " chars)">>]>>

\* the score of a response: each kind of keyword counted once, whatever the
\* number of code blocks it occurs in
ScoreOncePerResponse(codeBlocks) ==
    LET InSomeBlock(words) ==
            \E b \in 1..Len(codeBlocks) : HasWord(LowerText(codeBlocks[b].code), words)
    IN  (IF InSomeBlock({"for", "while", "foreach"}) THEN 1 ELSE 0)
          + (IF InSomeBlock({"if", "else", "switch"}) THEN 1 ELSE 0)
          + (IF InSomeBlock({"class", "function", "def", "async"}) THEN 1 ELSE 0)
          + (IF InSomeBlock({"try", "catch", "exception"}) THEN 2 ELSE 0)
          + (IF InSomeBlock({"recursion", "recursive"}) THEN 3 ELSE 0)

\* C23: the complexity of a response is High when its score, counted once
\* per response over its extracted code bodies, is at least 6, Medium when
\* at least 3, Low otherwise, and Low when it has no code block.
C23_ComplexityOncePerResponse ==
    report.op = "assessCodeComplexity"
    => LET codeBlocks == extractCodeBlocksFromText(markdown)
           score == ScoreOncePerResponse(codeBlocks)
       IN  /\ score <= 8
           /\ report.result[1] =
                 (IF codeBlocks = <<>> THEN "Low"
                  ELSE IF score >= 6 THEN "High"
                  ELSE IF score >= 3 THEN "Medium"
                  ELSE "Low")


\* the text before the regions
Prose == SubSeq(markdown, 1, Len(markdown) - Len(WriteRegions(regions)))

\* the list items of a text, bullets first
ListItems(t) == ItemsFrom(t, 1, FALSE) \o ItemsFrom(t, 1, TRUE)

\* the sentences of a text that hold an emphasis keyword
EmphasisSentences(t) ==
    LET kept == SelectSeq(SelectSeq(SplitSentences(t, <<>>), IsLongSentence),
                          IsKeySentence)
    IN  [k \in 1..Len(kept) |-> Trim(kept[k])]

Count(seq, x) == Cardinality({k \in 1..Len(seq) : seq[k] = x})

\* C26: the key points of a text are collected outside its fenced code
\* regions: each is a list item of the text before the regions or, when that
\* text has no list item, one of its emphasis sentences; there are at most 5
\* of them, and at most 3 when there is no list item.
C26_KeyPointsOutsideCode ==
    report.op = "extractExplanationSections"
    => LET points == report.result[1].keyPoints
           candidates == IF ListItems(Prose) # <<>> THEN ListItems(Prose)
                         ELSE EmphasisSentences(Prose)
       IN  /\ Len(points) <= 5
           /\ ListItems(Prose) = <<>> => Len(points) <= 3
           /\ \A k \in 1..Len(points) :
                 Count(points, points[k]) <= Count(candidates, points[k])

\* ---- service and handler, continued
\* C22: when a call hands its sequence of responses to the formatter, every
\* task of the call has settled, and no task still under way pushes into
\* that sequence.
C22_NoWriterOnReturnedSequence ==
    \A c \in Calls :
        Returned(c)
        => /\ \A b \in call[c].tasks : task[c][b].pc = "done"
           /\ \A d \in Calls \ {c} : InFlight(d) => call[c].ret # thisResponses


\* C27: a getSingleGPTResponse call whose GPT-4o request failed returns an
\* entry of Claude beside the error entry.
C27_SingleFallsBackToClaude ==
    \A c \in Calls :
        (/\ Returned(c) /\ call[c].kind = "single"
         /\ \E i \in 1..Len(Result(c)) : Result(c)[i].model = ErrorModelName("GPT"))
        => EntriesOf(Result(c), "Claude") # {}


\* C28: resolution over a catalog of at least 2 distinct models returns 2
\* different ids.
C28_ResolvedBackendsDistinct ==
    (resolved.called /\ Cardinality(Range(catalog)) >= 2)
    => /\ Len(resolved.ids) = 2
       /\ resolved.ids[1] # resolved.ids[2]


\* no comparison is accepted with these settings and this catalog
EveryComparisonRefused ==
    /\ ~UseDefaults(defaultModels)
    /\ NotEnoughModels(getFallbackModelIds(catalog))

\* C29: while every comparison has been refused and none is under way, the
\* session has no prompt and no responses, whatever the command did.
C29_RefusalChangesNothing ==
    (/\ EveryComparisonRefused
     /\ \A v \in Invocations : handler[v].pc \in {"idle", "refused"})
    => lastPrompt = "" /\ comparisonData = <<>>

\* the lookup by family of a model id finds the model of that id
LooksUp(modelId) ==
    /\ SelectByFamily(catalog, modelId) # <<>>
    /\ SelectByFamily(catalog, modelId)[1].id = modelId

\* C30: the ids auto-resolution chose for a fan-out, and the ids the command
\* offers, are found again by the lookup of the task that queries them.
C30_ChosenIdsAreFound ==
    /\ \A v \in Invocations :
          (handler[v].pc \in {"running", "done"} /\ ~UseDefaults(defaultModels))
          => \A i \in 1..Len(handler[v].modelIds) : LooksUp(handler[v].modelIds[i])
    /\ \A k \in 1..Len(add.items) : LooksUp(add.items[k])

====
